---- MODULE Spec2Model ----
(***************************************************************************)
(* Model of the backtest core of scoutrul/algotest:                        *)
(*   HybridStrategy.run_backtest / _execute_backtest  (services/strategy.py)*)
(*   HybridStrategy._execute_trades        (services/strategy/hybrid_strategy.py)*)
(*   RiskManager                           (services/strategy/risk_manager.py)*)
(*   BacktestEngine.run_backtest           (services/backtest.py)          *)
(*                                                                         *)
(* Python floats are modelled as exact rationals <<n, d>> (d > 0, lowest   *)
(* terms), so the arithmetic identities of the code are checked without    *)
(* rounding.  Timestamps are minutes: candle k of a series has timestamp k.*)
(* Optional[x] is <<>> (None) or <<v>>.                                    *)
(***************************************************************************)
EXTENDS Integers, Sequences, FiniteSets, TLC

(* ------------------------------ bounds --------------------------------- *)

\* longest candle series fed to a run
MaxCandles == 4
\* PriceAnalyzer.long_period, scaled down (the code's default is 20)
LongPeriod == 1
\* VolumeAnalyzer.lookback_period, scaled down (the code's default is 20)
LookbackPeriod == 2

(* ------------------------- program constants --------------------------- *)

\* config take_profit 0.02 and stop_loss 0.01, in percent
TakeProfitPct == 2
StopLossPct == 1
\* RiskManager.max_position_size 0.1, in percent
MaxPositionPct == 10
\* RiskManager minimum position, 0.01 of the available capital, in percent
MinPositionPct == 1
\* config initial_capital
InitialCapital == 10000

(* ------------------------------ rationals ------------------------------ *)

Abs(x) == IF x < 0 THEN -x ELSE x

RECURSIVE GCD(_, _)
GCD(a, b) == IF b = 0 THEN a ELSE GCD(b, a % b)

Norm(n, d) ==
    LET g == GCD(Abs(n), d) IN <<n \div g, d \div g>>

RInt(k) == <<k, 1>>
RZero == RInt(0)
Pct(p) == Norm(p, 100)

RAdd(a, b) ==
    LET l == (a[2] \div GCD(a[2], b[2])) * b[2]
    IN  Norm(a[1] * (l \div a[2]) + b[1] * (l \div b[2]), l)

RNeg(a) == <<-a[1], a[2]>>
RSub(a, b) == RAdd(a, RNeg(b))

RMul(a, b) ==
    LET g1 == GCD(Abs(a[1]), b[2])
        g2 == GCD(Abs(b[1]), a[2])
    IN  IF a[1] = 0 \/ b[1] = 0 THEN RZero
        ELSE Norm((a[1] \div g1) * (b[1] \div g2), (a[2] \div g2) * (b[2] \div g1))

\* a / b for b > 0
RDiv(a, b) == RMul(a, <<b[2], b[1]>>)

RLess(a, b) == RSub(a, b)[1] < 0
RLeq(a, b) == RSub(a, b)[1] <= 0
RMin(a, b) == IF RLeq(a, b) THEN a ELSE b
RMax(a, b) == IF RLeq(a, b) THEN b ELSE a

None == <<>>
Some(v) == <<v>>

(* ------------------------------- inputs -------------------------------- *)

\* CandleData shapes a series is drawn from (models/backtest.py CandleData):
\* a flat bar, a 2% up bar with a volume surge, and a 2% down bar with a wide
\* range and a volume surge.
CandleShapes ==
    { [open |-> 100, high |-> 100, low |-> 100, close |-> 100, volume |-> 10],
      [open |-> 100, high |-> 103, low |-> 100, close |-> 102, volume |-> 40],
      [open |-> 100, high |-> 100, low |-> 94,  close |-> 98,  volume |-> 40] }

\* params.max_trades and params.lookback_period values of a run
MaxTradesValues == {1, 2}
ParamLookbacks == {LookbackPeriod}

\* direction and quality_score a filtered signal can carry
SignalKinds ==
    { [direction |-> "long",    quality_score |-> <<1, 1>>],
      [direction |-> "short",   quality_score |-> <<1, 2>>],
      [direction |-> "unknown", quality_score |-> <<3, 10>>] }

SeriesOf(n) == [1..n -> CandleShapes]

\* candle k of a series, with its timestamp
CandleAt(series, k) ==
    [timestamp |-> k, open |-> series[k].open, high |-> series[k].high,
     low |-> series[k].low, close |-> series[k].close, volume |-> series[k].volume]

(* ----------------------------- RiskManager ----------------------------- *)

\* RiskManager._calculate_volatility_adjustment: (high - low) / close against
\* 5%, 3% and 2%
calculate_volatility_adjustment(candle) ==
    LET range100 == (candle.high - candle.low) * 100
    IN  IF range100 > 5 * candle.close THEN <<1, 2>>
        ELSE IF range100 > 3 * candle.close THEN <<7, 10>>
        ELSE IF range100 > 2 * candle.close THEN <<4, 5>>
        ELSE RInt(1)

\* a position size that is capped but has no floor; the property about the
\* bounds of the size is expected to fail under it
position_size_without_minimum(signal, candle, available) ==
    LET base_size == RMul(available, Pct(MaxPositionPct))
        adjusted_size == RMul(base_size, signal.quality_score)
        final_size == RMul(adjusted_size, calculate_volatility_adjustment(candle))
    IN  RMin(final_size, base_size)

\* RiskManager._calculate_position_size
calculate_position_size(signal, candle, available) ==
    LET base_size == RMul(available, Pct(MaxPositionPct))
        adjusted_size == RMul(base_size, signal.quality_score)
        final_size == RMul(adjusted_size, calculate_volatility_adjustment(candle))
        min_size == RMul(available, Pct(MinPositionPct))
        max_size == RMul(available, Pct(MaxPositionPct))
    IN  RMax(min_size, RMin(final_size, max_size))

\* RiskManager._calculate_stop_loss
calculate_stop_loss(entry_price, direction) ==
    IF direction = "long"
    THEN RMul(entry_price, RSub(RInt(1), Pct(StopLossPct)))
    ELSE RMul(entry_price, RAdd(RInt(1), Pct(StopLossPct)))

\* a take-profit level with the sign of the two directions exchanged; the
\* ordering of the levels around the entry price is expected to fail under it
take_profit_signs_exchanged(entry_price, direction) ==
    IF direction = "long"
    THEN RMul(entry_price, RSub(RInt(1), Pct(TakeProfitPct)))
    ELSE RMul(entry_price, RAdd(RInt(1), Pct(TakeProfitPct)))

\* RiskManager._calculate_take_profit
calculate_take_profit(entry_price, direction) ==
    IF direction = "long"
    THEN RMul(entry_price, RAdd(RInt(1), Pct(TakeProfitPct)))
    ELSE RMul(entry_price, RSub(RInt(1), Pct(TakeProfitPct)))

\* RiskManager._calculate_pnl
calculate_pnl(trade, exit_price) ==
    IF trade.direction = "long"
    THEN RDiv(RMul(trade.size, RSub(exit_price, trade.entry_price)), trade.entry_price)
    ELSE RDiv(RMul(trade.size, RSub(trade.entry_price, exit_price)), trade.entry_price)

\* the Field(..., gt=0) constraints of Trade (models/backtest.py)
TradeValid(t) ==
    /\ t.entry_price[1] > 0
    /\ t.size[1] > 0
    /\ t.take_profit[1] > 0
    /\ t.stop_loss[1] > 0

\* a trade entered at the candle's open instead of its close; the property
\* about the entry price is expected to fail under it
create_trade_at_open(signal, candle, available, wall_clock) ==
    LET entry_price == RInt(candle.open)
    IN  Some([id |-> wall_clock,
              entry_time |-> candle.timestamp,
              exit_time |-> None,
              direction |-> IF signal.direction = "long" THEN "long" ELSE "short",
              entry_price |-> entry_price,
              exit_price |-> None,
              size |-> calculate_position_size(signal, candle, available),
              pnl |-> None,
              exit_reason |-> None,
              take_profit |-> calculate_take_profit(entry_price, signal.direction),
              stop_loss |-> calculate_stop_loss(entry_price, signal.direction),
              duration_minutes |-> None])

\* RiskManager.create_trade; wall_clock is int(datetime.now().timestamp()).
\* None when the size is not positive or Trade(...) raises.
create_trade(signal, candle, available, wall_clock) ==
    LET position_size == calculate_position_size(signal, candle, available)
        entry_price == RInt(candle.close)
        trade == [id |-> wall_clock,
                  entry_time |-> candle.timestamp,
                  exit_time |-> None,
                  direction |-> IF signal.direction = "long" THEN "long" ELSE "short",
                  entry_price |-> entry_price,
                  exit_price |-> None,
                  size |-> position_size,
                  pnl |-> None,
                  exit_reason |-> None,
                  take_profit |-> calculate_take_profit(entry_price, signal.direction),
                  stop_loss |-> calculate_stop_loss(entry_price, signal.direction),
                  duration_minutes |-> None]
    IN  IF position_size[1] <= 0 THEN None
        ELSE IF ~TradeValid(trade) THEN None
        ELSE Some(trade)

ExitInfo(price, reason, trade) ==
    Some([should_exit |-> TRUE, exit_price |-> price, exit_reason |-> reason,
          pnl |-> calculate_pnl(trade, price)])

\* an exit check against the bar's high and low instead of its close; the
\* close-only property of check_exit_conditions is expected to fail under it
check_exit_high_low(trade, candle) ==
    IF trade.direction = "long" /\ RLeq(trade.take_profit, RInt(candle.high))
    THEN ExitInfo(trade.take_profit, "take_profit", trade)
    ELSE IF trade.direction = "short" /\ RLeq(RInt(candle.low), trade.take_profit)
    THEN ExitInfo(trade.take_profit, "take_profit", trade)
    ELSE IF trade.direction = "long" /\ RLeq(RInt(candle.low), trade.stop_loss)
    THEN ExitInfo(trade.stop_loss, "stop_loss", trade)
    ELSE IF trade.direction = "short" /\ RLeq(trade.stop_loss, RInt(candle.high))
    THEN ExitInfo(trade.stop_loss, "stop_loss", trade)
    ELSE None

\* an exit that fills at the bar's close instead of at the level; the bounds of
\* the realized PnL are expected to fail under it
check_exit_at_close(trade, candle) ==
    LET current_price == RInt(candle.close)
    IN  IF trade.direction = "long" /\ RLeq(trade.take_profit, current_price)
        THEN ExitInfo(current_price, "take_profit", trade)
        ELSE IF trade.direction = "short" /\ RLeq(current_price, trade.take_profit)
        THEN ExitInfo(current_price, "take_profit", trade)
        ELSE IF trade.direction = "long" /\ RLeq(current_price, trade.stop_loss)
        THEN ExitInfo(current_price, "stop_loss", trade)
        ELSE IF trade.direction = "short" /\ RLeq(trade.stop_loss, current_price)
        THEN ExitInfo(current_price, "stop_loss", trade)
        ELSE None

\* RiskManager.check_exit_conditions
check_exit_conditions(trade, candle) ==
    LET current_price == RInt(candle.close)
    IN  IF trade.direction = "long" /\ RLeq(trade.take_profit, current_price)
        THEN ExitInfo(trade.take_profit, "take_profit", trade)
        ELSE IF trade.direction = "short" /\ RLeq(current_price, trade.take_profit)
        THEN ExitInfo(trade.take_profit, "take_profit", trade)
        ELSE IF trade.direction = "long" /\ RLeq(current_price, trade.stop_loss)
        THEN ExitInfo(trade.stop_loss, "stop_loss", trade)
        ELSE IF trade.direction = "short" /\ RLeq(trade.stop_loss, current_price)
        THEN ExitInfo(trade.stop_loss, "stop_loss", trade)
        ELSE None

(* ------------------------- signal detection ---------------------------- *)

\* PriceAnalyzer._detect_price_signals: abs(price_change_pct) >= min_price_change,
\* with price_change_pct = (close - open) / open and min_price_change 0.005
price_change_qualifies(open, close) == Abs(close - open) * 1000 >= 5 * open

\* a spike test that lets a ratio equal to the threshold through; the strict
\* comparison of the volume detector is expected to fail under it
volume_spike_inclusive(volume_ratio, adaptive_threshold) ==
    /\ adaptive_threshold # None
    /\ RLeq(adaptive_threshold[1], volume_ratio)

\* VolumeAnalyzer._calculate_volume_metrics: volume_ratio > adaptive_threshold;
\* the threshold is None while it is NaN, and no comparison with NaN is true
volume_spike(volume_ratio, adaptive_threshold) ==
    /\ adaptive_threshold # None
    /\ RLess(adaptive_threshold[1], volume_ratio)

\* PriceAnalyzer._detect_price_signals: bar k (1-based) is examined from index
\* long_period on, and is a candidate when |close - open| / open >= 0.005
PriceCandidate(series, k) ==
    /\ k > LongPeriod
    /\ price_change_qualifies(series[k].open, series[k].close)

RECURSIVE VolumeSum(_, _, _)
VolumeSum(series, from, to) ==
    IF from > to THEN 0 ELSE series[from].volume + VolumeSum(series, from + 1, to)

\* VolumeAnalyzer: bar k is examined from index lookback_period on; the
\* adaptive threshold is volume_threshold (1.5) x (1 + volatility / sma) with
\* volatility >= 0, and is NaN (never exceeded) until the rolling mean of the
\* rolling deviation has 2 x lookback - 1 bars.  A spike therefore needs
\* volume / sma > 1.5, the sma being over the lookback bars ending at k.
VolumeSpikePossible(series, k) ==
    /\ k > LookbackPeriod
    /\ k >= 2 * LookbackPeriod - 1
    /\ series[k].volume * LookbackPeriod * 10
          > 15 * VolumeSum(series, k - LookbackPeriod + 1, k)

\* timestamps at which the volume or the price detector can emit a signal,
\* hence those a combined, risk-filtered signal can carry
SignalTimestamps(series) ==
    { k \in 1..Len(series) : PriceCandidate(series, k) \/ VolumeSpikePossible(series, k) }

(* ------------------------------- state --------------------------------- *)

VARIABLES
    candles,            \* the candle series of the run (a sequence of CandleShapes)
    params,             \* StrategyParams of the run
    pc,                 \* position of the run
    signals,            \* detect_signals' result, as signal_lookup: timestamp -> signal
    i,                  \* index of the next candle of _execute_backtest's loop
    active_trades,      \* _execute_backtest.active_trades
    trades,             \* _execute_backtest.trades
    available_capital,  \* _execute_backtest.available_capital
    now,                \* int(datetime.now().timestamp()), never decreasing
    last_check,         \* the latest check_exit_conditions call: its arguments and result
    result,             \* the dict HybridStrategy.run_backtest returned, or None
    failure,            \* the stage in which an unexpected failure was raised, or None
    engine,             \* outcome of BacktestEngine.run_backtest
    alt,                \* state of hybrid_strategy.py's _execute_trades
    prev,               \* signals and result of an earlier run on the same inputs, or None
    api,                \* the request the API endpoint is handling and what it did for it
    calc,               \* a function of the program under study: its arguments and its result
    runs                \* the locals of the runs in progress on one shared engine

\* the variables of a single run of the engine and the strategy
runVars == <<candles, params, pc, signals, i, active_trades, trades, available_capital,
             now, last_check, result, failure, engine, alt, prev>>

\* the variables of the other entry points
otherVars == <<api, calc, runs>>

vars == <<runVars, otherVars>>

EmptySignals == [t \in {} |-> [direction |-> "unknown", quality_score |-> RZero]]

AltInit == [i |-> 0, current_position |-> None, trades |-> <<>>, result |-> None]
EngineInit == [status |-> "none", success |-> FALSE, error_message |-> None]

Init ==
    /\ candles \in UNION { SeriesOf(n) : n \in 0..MaxCandles }
    /\ params \in [lookback_period : ParamLookbacks,
                   max_trades : MaxTradesValues,
                   initial_capital : {InitialCapital}]
    /\ pc = "run_backtest"
    /\ signals = EmptySignals
    /\ i = 1
    /\ active_trades = <<>>
    /\ trades = <<>>
    /\ available_capital = RInt(params.initial_capital)
    /\ now = 0
    /\ last_check = None
    /\ result = None
    /\ failure = None
    /\ engine = EngineInit
    /\ alt = AltInit
    /\ prev = None
    /\ api = None
    /\ calc = None
    /\ runs = None

(* --------------------- HybridStrategy (strategy.py) -------------------- *)

\* detection without the minimum-length check; the handling of insufficient
\* input is expected to fail under it
DetectableWithoutMinimum(series, p) ==
    UNION { [S -> SignalKinds] : S \in SUBSET SignalTimestamps(series) }

\* every signal list detect_signals can return for the series: none when the
\* series is shorter than params.lookback_period + 1, otherwise a signal at any
\* of the timestamps the detectors can fire at
DetectableSignals(series, p) ==
    IF Len(series) < p.lookback_period + 1
    THEN {EmptySignals}
    ELSE UNION { [S -> SignalKinds] : S \in SUBSET SignalTimestamps(series) }

ZeroStatistics ==
    [total_trades |-> 0, winning_trades |-> 0, losing_trades |-> 0, win_rate |-> RZero,
     total_pnl |-> RZero, total_return |-> RZero, avg_win |-> RZero, avg_loss |-> RZero,
     profit_factor |-> RZero, max_drawdown |-> RZero, sharpe_ratio |-> RZero,
     avg_trade_duration |-> RZero, max_trade_duration |-> 0, min_trade_duration |-> 0,
     consecutive_wins |-> 0, consecutive_losses |-> 0,
     largest_win |-> RZero, largest_loss |-> RZero]

\* t.pnl is set and not zero ("if t.pnl")
Truthy(t) == t.pnl # None /\ t.pnl[1][1] # 0

RECURSIVE SumPnl(_)
SumPnl(ts) ==
    IF ts = <<>> THEN RZero
    ELSE IF Truthy(Head(ts)) THEN RAdd(Head(ts).pnl[1], SumPnl(Tail(ts)))
    ELSE SumPnl(Tail(ts))

\* [t.pnl for t in trades if t.pnl]
RECURSIVE Pnls(_)
Pnls(ts) ==
    IF ts = <<>> THEN <<>>
    ELSE IF Truthy(Head(ts)) THEN <<Head(ts).pnl[1]>> \o Pnls(Tail(ts))
    ELSE Pnls(Tail(ts))

RECURSIVE RSum(_)
RSum(xs) == IF xs = <<>> THEN RZero ELSE RAdd(Head(xs), RSum(Tail(xs)))

RAbs(x) == <<Abs(x[1]), x[2]>>

\* np.mean of a list, 0 for the empty list
MeanOrZero(xs) == IF xs = <<>> THEN RZero ELSE RDiv(RSum(xs), RInt(Len(xs)))

\* np.max / np.min of a non-empty list
RECURSIVE SeqMax(_)
SeqMax(xs) == IF Len(xs) = 1 THEN xs[1] ELSE RMax(xs[1], SeqMax(Tail(xs)))

RECURSIVE SeqMin(_)
SeqMin(xs) == IF Len(xs) = 1 THEN xs[1] ELSE RMin(xs[1], SeqMin(Tail(xs)))

\* np.cumsum
cumsum(xs) == [k \in 1..Len(xs) |-> RSum(SubSeq(xs, 1, k))]

\* the drawdown of strategy.py 246-250: running maximum of the cumulative PnL
\* minus the cumulative PnL, at its largest
max_drawdown(pnls) ==
    IF pnls = <<>> THEN RZero
    ELSE LET cumulative_pnl == cumsum(pnls)
             running_max == [k \in 1..Len(pnls) |-> SeqMax(SubSeq(cumulative_pnl, 1, k))]
             drawdown == [k \in 1..Len(pnls) |-> RSub(running_max[k], cumulative_pnl[k])]
         IN  SeqMax(drawdown)

\* the loop of hybrid_strategy.py 256-267 from trade k on: cumulative_pnl and
\* peak start at 0
RECURSIVE DrawdownWalk(_, _, _, _, _)
DrawdownWalk(ts, k, cumulative_pnl, peak, worst) ==
    IF k > Len(ts) THEN worst
    ELSE LET cumulative == RAdd(cumulative_pnl, ts[k].pnl[1])
             high == IF RLess(peak, cumulative) THEN cumulative ELSE peak
             drawdown == RSub(high, cumulative)
         IN  DrawdownWalk(ts, k + 1, cumulative, high,
                          IF RLess(worst, drawdown) THEN drawdown ELSE worst)

walk_max_drawdown(ts) == DrawdownWalk(ts, 1, RZero, RZero, RZero)

\* streak counters that a flat trade resets as well; the property about the
\* streaks is expected to fail under them
RECURSIVE consecutive_reset_on_flat(_, _, _, _, _)
consecutive_reset_on_flat(ts, k, current, best, wins) ==
    IF k > Len(ts) THEN best
    ELSE LET counts == Truthy(ts[k]) /\ (ts[k].pnl[1][1] > 0) = wins
             now_current == IF counts THEN current + 1 ELSE 0
         IN  consecutive_reset_on_flat(ts, k + 1, now_current,
                                       IF now_current > best THEN now_current ELSE best, wins)

\* HybridStrategy._calculate_consecutive_trades from trade k on, for the wins
\* (wins = TRUE) or the losses: the counter grows on the own outcome and is set
\* to 0 on the opposite one
RECURSIVE consecutive_trades(_, _, _, _, _)
consecutive_trades(ts, k, current, best, wins) ==
    IF k > Len(ts) THEN best
    ELSE LET now_current == IF ~Truthy(ts[k]) THEN current
                            ELSE IF (ts[k].pnl[1][1] > 0) = wins THEN current + 1
                            ELSE 0
         IN  consecutive_trades(ts, k + 1, now_current,
                                IF now_current > best THEN now_current ELSE best, wins)

\* HybridStrategy._calculate_statistics: the counts and the figures computed
\* from the trades' PnL
calculate_statistics(ts, initial_capital) ==
    IF ts = <<>> THEN ZeroStatistics
    ELSE LET pnls == Pnls(ts)
             winning == SelectSeq(pnls, LAMBDA x : x[1] > 0)
             losing == SelectSeq(pnls, LAMBDA x : x[1] < 0)
             avg_win == MeanOrZero(winning)
             avg_loss == MeanOrZero(losing)
         IN  [total_trades |-> Len(ts),
              winning_trades |-> Len(winning),
              losing_trades |-> Len(losing),
              total_pnl |-> SumPnl(ts),
              avg_win |-> avg_win,
              avg_loss |-> avg_loss,
              profit_factor |->
                  IF avg_loss # RZero THEN RDiv(RAbs(avg_win), RAbs(avg_loss)) ELSE RZero,
              max_drawdown |-> max_drawdown(pnls),
              consecutive_wins |-> consecutive_trades(ts, 1, 0, 0, TRUE),
              consecutive_losses |-> consecutive_trades(ts, 1, 0, 0, FALSE),
              largest_win |-> IF pnls # <<>> THEN SeqMax(pnls) ELSE RZero,
              largest_loss |-> IF pnls # <<>> THEN SeqMin(pnls) ELSE RZero]

DataPeriod(series) ==
    [start |-> IF series # <<>> THEN Some(1) ELSE None,
     end |-> IF series # <<>> THEN Some(Len(series)) ELSE None]

\* an empty result reported as a failure; the success of a run without signals
\* is expected to fail under it
empty_result_as_failure(series, p) ==
    [trades |-> <<>>,
     statistics |-> calculate_statistics(<<>>, p.initial_capital),
     final_capital |-> RInt(p.initial_capital),
     data_period |-> DataPeriod(series),
     success |-> FALSE,
     error_message |-> Some("No signals detected")]

\* HybridStrategy._create_empty_backtest_result
create_empty_backtest_result(series, p) ==
    [trades |-> <<>>,
     statistics |-> calculate_statistics(<<>>, p.initial_capital),
     final_capital |-> RInt(p.initial_capital),
     data_period |-> DataPeriod(series),
     success |-> TRUE,
     error_message |-> Some("No signals detected")]

\* HybridStrategy._create_error_backtest_result
create_error_backtest_result(series, p, message) ==
    [trades |-> <<>>,
     statistics |-> calculate_statistics(<<>>, p.initial_capital),
     final_capital |-> RInt(p.initial_capital),
     data_period |-> DataPeriod(series),
     success |-> FALSE,
     error_message |-> Some(message)]

\* the result dict of a completed run_backtest
backtest_result(series, ts, p) ==
    [trades |-> ts,
     statistics |-> calculate_statistics(ts, p.initial_capital),
     final_capital |-> RAdd(RInt(p.initial_capital), SumPnl(ts)),
     data_period |-> DataPeriod(series),
     success |-> TRUE,
     error_message |-> None]

\* list.remove(x): the list without its first element equal to x
RemoveFirst(seq, x) ==
    LET k == CHOOSE n \in DOMAIN seq : seq[n] = x /\ \A m \in 1..(n - 1) : seq[m] # x
    IN  SubSeq(seq, 1, k - 1) \o SubSeq(seq, k + 1, Len(seq))

\* _execute_backtest, closing a trade on an exit signal (strategy.py 156-165)
CloseTrade(trade, candle, info) ==
    [trade EXCEPT !.exit_time = Some(candle.timestamp),
                  !.exit_price = Some(info.exit_price),
                  !.pnl = Some(info.pnl),
                  !.exit_reason = Some(info.exit_reason),
                  !.duration_minutes = Some(candle.timestamp - trade.entry_time)]

\* _execute_backtest, "for trade in active_trades[:]": the exit check of every
\* trade of the copy, from its k-th on
RECURSIVE ExitLoop(_, _, _, _, _, _, _)
ExitLoop(k, copy, act, closed, capital, check, candle) ==
    IF k > Len(copy)
    THEN [active |-> act, trades |-> closed, capital |-> capital, check |-> check]
    ELSE LET trade == copy[k]
             info == check_exit_conditions(trade, candle)
             seen == Some([trade |-> trade, close |-> candle.close, info |-> info])
         IN  IF info # None /\ info[1].should_exit
             THEN LET done == CloseTrade(trade, candle, info[1])
                  IN  ExitLoop(k + 1, copy, RemoveFirst(act, trade), Append(closed, done),
                               RAdd(capital, done.pnl[1]), seen, candle)
             ELSE ExitLoop(k + 1, copy, act, closed, capital, seen, candle)

\* entry conditions that differ from the code's in one conjunct; the properties
\* about open positions and the trade limit are expected to fail under them
CanEnterWhileOneOpen(act, closed, max_trades, timestamp, lookup) ==
    /\ Len(act) <= 1
    /\ Len(closed) < max_trades
    /\ timestamp \in DOMAIN lookup

CanEnterWhileOpen(act, closed, max_trades, timestamp, lookup) ==
    /\ Len(closed) < max_trades
    /\ timestamp \in DOMAIN lookup

CanEnterAtLimit(act, closed, max_trades, timestamp, lookup) ==
    /\ Len(act) = 0
    /\ Len(closed) <= max_trades
    /\ timestamp \in DOMAIN lookup

\* an entry condition that also refuses the candle at which a trade was just
\* closed; the property about re-entry at the exit candle is expected to fail
\* under it
CanEnterAfterExitCandle(act, closed, max_trades, timestamp, lookup) ==
    /\ Len(act) = 0
    /\ Len(closed) < max_trades
    /\ timestamp \in DOMAIN lookup
    /\ \A k \in DOMAIN closed : closed[k].exit_time # Some(timestamp)

\* _execute_backtest's entry condition (strategy.py 174-176)
CanEnter(act, closed, max_trades, timestamp, lookup) ==
    /\ Len(act) = 0
    /\ Len(closed) < max_trades
    /\ timestamp \in DOMAIN lookup

\* a final step that leaves the trade as it is; the property that every
\* returned trade is closed is expected to fail under it
LeaveOpen(trade, final_candle) == trade

\* _execute_backtest, closing a trade left open at the end of the series
\* (strategy.py 192-199)
ForceClose(trade, final_candle) ==
    [trade EXCEPT !.exit_time = Some(final_candle.timestamp),
                  !.exit_price = Some(RInt(final_candle.close)),
                  !.pnl = Some(calculate_pnl(trade, RInt(final_candle.close))),
                  !.exit_reason = Some("manual"),
                  !.duration_minutes = Some(final_candle.timestamp - trade.entry_time)]

simVars == <<i, active_trades, trades, available_capital, last_check>>

\* run_backtest calls detect_signals (strategy.py 39-80, 102)
DetectSignals ==
    /\ pc = "run_backtest"
    /\ \E sigs \in IF prev = None THEN DetectableSignals(candles, params)
                   ELSE {prev[1].signals} :
          signals' = sigs
    /\ pc' = "detected"
    /\ UNCHANGED <<candles, params, simVars, now, result, failure, engine, alt, prev>>
    /\ UNCHANGED otherVars

\* an unexpected failure inside the detectors, the combiner or the risk filter:
\* detect_signals catches it and returns [] (strategy.py 82-84)
DetectionFailure ==
    /\ pc = "run_backtest"
    /\ prev = None
    /\ Len(candles) >= params.lookback_period + 1
    /\ signals' = EmptySignals
    /\ failure' = Some("detect_signals")
    /\ pc' = "detected"
    /\ UNCHANGED <<candles, params, simVars, now, result, engine, alt, prev>>
    /\ UNCHANGED otherVars

\* run_backtest, "if not signals" (strategy.py 104-109)
CheckSignals ==
    /\ pc = "detected"
    /\ IF DOMAIN signals = {}
       THEN /\ result' = Some(create_empty_backtest_result(candles, params))
            /\ pc' = "returned"
       ELSE /\ result' = result
            /\ pc' = "loop"
    /\ UNCHANGED <<candles, params, signals, simVars, now, failure, engine, alt, prev>>
    /\ UNCHANGED otherVars

\* one iteration of _execute_backtest's candle loop (strategy.py 150-186)
ProcessCandle ==
    /\ pc = "loop"
    /\ i <= Len(candles)
    /\ LET candle == CandleAt(candles, i)
           ex == ExitLoop(1, active_trades, active_trades, trades, available_capital,
                          last_check, candle)
       IN  /\ trades' = ex.trades
           /\ last_check' = ex.check
           /\ IF CanEnter(ex.active, ex.trades, params.max_trades, candle.timestamp, signals)
              THEN \E clock \in {now, now + 1} :
                      LET trade == create_trade(signals[candle.timestamp], candle,
                                                ex.capital, clock)
                      IN  /\ now' = clock
                          /\ active_trades' =
                                IF trade # None THEN Append(ex.active, trade[1]) ELSE ex.active
                          /\ available_capital' =
                                IF trade # None THEN RSub(ex.capital, trade[1].size)
                                ELSE ex.capital
              ELSE /\ now' = now
                   /\ active_trades' = ex.active
                   /\ available_capital' = ex.capital
    /\ i' = i + 1
    /\ UNCHANGED <<candles, params, pc, signals, result, failure, engine, alt, prev>>
    /\ UNCHANGED otherVars

\* _execute_backtest after the loop (strategy.py 188-203)
CloseRemaining ==
    /\ pc = "loop"
    /\ i > Len(candles)
    /\ LET closed == IF candles # <<>>
                     THEN [k \in 1..Len(active_trades) |->
                              ForceClose(active_trades[k], CandleAt(candles, Len(candles)))]
                     ELSE <<>>
       IN  /\ trades' = trades \o closed
           /\ active_trades' = IF candles # <<>> THEN closed ELSE active_trades
    /\ pc' = "statistics"
    /\ UNCHANGED <<candles, params, signals, i, available_capital, now, last_check,
                   result, failure, engine, alt, prev>>
    /\ UNCHANGED otherVars

\* run_backtest: statistics and the result dict (strategy.py 111-130)
ReturnResult ==
    /\ pc = "statistics"
    /\ result' = Some(backtest_result(candles, trades, params))
    /\ pc' = "returned"
    /\ UNCHANGED <<candles, params, signals, simVars, now, failure, engine, alt, prev>>
    /\ UNCHANGED otherVars

\* an unexpected failure in the simulation, the statistics or the building of
\* the result: run_backtest's handler returns the error result (strategy.py
\* 132-134); the locals of the abandoned frames are gone
UnexpectedFailure ==
    /\ pc \in {"loop", "statistics"}
    /\ prev = None
    /\ failure' = Some(pc)
    /\ result' = Some(create_error_backtest_result(candles, params, "unexpected failure"))
    /\ pc' = "returned"
    /\ signals' = EmptySignals
    /\ i' = 1
    /\ active_trades' = <<>>
    /\ trades' = <<>>
    /\ available_capital' = RInt(params.initial_capital)
    /\ last_check' = None
    /\ UNCHANGED <<candles, params, now, engine, alt, prev>>
    /\ UNCHANGED otherVars

(* ------------------- BacktestEngine (services/backtest.py) ------------- *)

\* what pydantic checks when BacktestResult(...) is built (models/backtest.py
\* 97-115): final_capital > 0 and every value of data_period a datetime
BacktestResultValid(final_capital, data_period) ==
    /\ final_capital[1] > 0
    /\ data_period.start # None
    /\ data_period.end # None

\* BacktestEngine.run_backtest, no candles fetched (backtest.py 45-50)
EngineNoData ==
    /\ pc = "run_backtest"
    /\ prev = None
    /\ candles = <<>>
    /\ engine' = [status |-> "failing", success |-> FALSE,
                  error_message |-> Some("No historical data available")]
    /\ pc' = "engine_error"
    /\ UNCHANGED <<candles, params, signals, simVars, now, result, failure, alt, prev>>
    /\ UNCHANGED otherVars

\* BacktestEngine.run_backtest, an unexpected failure before the strategy runs
\* (_prepare_strategy_params raising), caught by its handler (backtest.py 76-78)
EngineFailure ==
    /\ pc = "run_backtest"
    /\ prev = None
    /\ candles # <<>>
    /\ failure' = Some("engine")
    /\ engine' = [status |-> "failing", success |-> FALSE,
                  error_message |-> Some("unexpected failure")]
    /\ pc' = "engine_error"
    /\ UNCHANGED <<candles, params, signals, simVars, now, result, alt, prev>>
    /\ UNCHANGED otherVars

\* BacktestEngine.run_backtest wraps the strategy's dict in a BacktestResult
\* (backtest.py 58-78); a validation error goes to its handler
EngineBuildResult ==
    /\ pc = "returned"
    /\ prev = None
    /\ candles # <<>>
    /\ IF BacktestResultValid(result[1].final_capital, result[1].data_period)
       THEN /\ engine' = [status |-> "returned", success |-> result[1].success,
                          error_message |-> result[1].error_message]
            /\ pc' = "engine_done"
       ELSE /\ engine' = [status |-> "failing", success |-> FALSE,
                          error_message |-> Some("validation error")]
            /\ pc' = "engine_error"
    /\ UNCHANGED <<candles, params, signals, simVars, now, result, failure, alt, prev>>
    /\ UNCHANGED otherVars

\* BacktestEngine._create_error_result (backtest.py 132-168): BacktestResult
\* with data_period {'start': None, 'end': None}; when the model rejects it the
\* exception leaves run_backtest
CreateErrorResult ==
    /\ pc = "engine_error"
    /\ IF BacktestResultValid(RInt(params.initial_capital), [start |-> None, end |-> None])
       THEN /\ engine' = [engine EXCEPT !.status = "returned"]
            /\ pc' = "engine_done"
       ELSE /\ engine' = [engine EXCEPT !.status = "raised"]
            /\ pc' = "escaped"
    /\ UNCHANGED <<candles, params, signals, simVars, now, result, failure, alt, prev>>
    /\ UNCHANGED otherVars

(* ---------- HybridStrategy._execute_trades (hybrid_strategy.py) -------- *)

\* the alternate run_backtest goes from detect_signals to _execute_trades
\* (hybrid_strategy.py 102-106)
AltExecuteTrades ==
    /\ pc = "detected"
    /\ prev = None
    /\ pc' = "alt_loop"
    /\ UNCHANGED <<candles, params, signals, simVars, now, result, failure, engine, alt, prev>>
    /\ UNCHANGED otherVars

AltOpenTrades(a) == {k \in DOMAIN a.trades : a.trades[k].status = "open"}

\* one iteration of _execute_trades' loop over the signals (hybrid_strategy.py
\* 150-205).  signal['action'] raises KeyError for every dict detect_signals
\* returns (none has that key), and the entry branch reads params.position_size,
\* which StrategyParams does not have; run_backtest's handler returns the
\* failed result (hybrid_strategy.py 124-133).
AltStep ==
    /\ pc = "alt_loop"
    /\ IF alt.i >= Cardinality(DOMAIN signals) \/ alt.i >= Len(candles) - 1
       THEN /\ alt' = alt
            /\ pc' = "alt_close"
       ELSE /\ alt' = [alt EXCEPT !.i = alt.i + 1,
                                  !.result = Some([success |-> FALSE, trades |-> <<>>])]
            /\ pc' = "alt_returned"
    /\ UNCHANGED <<candles, params, signals, simVars, now, result, failure, engine, prev>>
    /\ UNCHANGED otherVars

\* _execute_trades after the loop and the alternate result (hybrid_strategy.py
\* 207-221, 109-122)
AltReturn ==
    /\ pc = "alt_close"
    /\ LET closed == [k \in DOMAIN alt.trades |-> [alt.trades[k] EXCEPT !.status = "closed"]]
       IN  alt' = [alt EXCEPT !.current_position = None,
                              !.trades = closed,
                              !.result = Some([success |-> TRUE, trades |-> closed])]
    /\ pc' = "alt_returned"
    /\ UNCHANGED <<candles, params, signals, simVars, now, result, failure, engine, prev>>
    /\ UNCHANGED otherVars

(* ------------------------------ a second run --------------------------- *)

\* the caller runs run_backtest again on the same strategy object with the same
\* (candles, params); the clock has moved on
Rerun ==
    /\ pc = "returned"
    /\ prev = None
    /\ failure = None
    /\ prev' = Some([signals |-> signals, result |-> result[1]])
    /\ pc' = "run_backtest"
    /\ signals' = EmptySignals
    /\ i' = 1
    /\ active_trades' = <<>>
    /\ trades' = <<>>
    /\ available_capital' = RInt(params.initial_capital)
    /\ last_check' = None
    /\ result' = None
    /\ UNCHANGED <<candles, params, now, failure, engine, alt>>
    /\ UNCHANGED otherVars

Next ==
    \/ DetectSignals
    \/ DetectionFailure
    \/ CheckSignals
    \/ ProcessCandle
    \/ CloseRemaining
    \/ ReturnResult
    \/ UnexpectedFailure
    \/ EngineNoData
    \/ EngineFailure
    \/ EngineBuildResult
    \/ CreateErrorResult
    \/ AltExecuteTrades
    \/ AltStep
    \/ AltReturn

Spec == Init /\ [][Next]_vars

NextTwice == Next \/ Rerun

SpecTwice == Init /\ [][NextTwice]_vars

(* ------------------ the backtest endpoint (api/backtest.py) ------------ *)

\* settings.MAX_CANDLES_LIMIT
MaxCandlesLimit == 10000

\* requests the endpoint receives: a supported symbol, one with a "/" that is
\* not supported, one without "/"; an interval both validators accept, one only
\* the data fetcher accepts, one only StrategyParams accepts; take_profit and
\* stop_loss in percent, or absent
RequestSymbols == {"BTC/USDT", "FOO/BAR", "BTCUSDT"}
RequestIntervals == {"1h", "1w", "5m"}
RequestTakeProfits == {None, Some(1), Some(3), Some(60)}
RequestStopLosses == {None, Some(1), Some(2), Some(3)}
RequestLimits == {None, Some(1000)}

Requests ==
    [symbol : RequestSymbols, interval : RequestIntervals,
     take_profit : RequestTakeProfits, stop_loss : RequestStopLosses,
     limit : RequestLimits]

\* DataFetcher.validate_symbol / validate_interval
fetcher_validate_symbol(symbol) == symbol = "BTC/USDT"
fetcher_validate_interval(interval) == interval \in {"1h", "1w"}

\* BacktestEngine._prepare_strategy_params: the request's parameters over the
\* defaults, then StrategyParams(...): TRUE when the model accepts them
\* (take_profit and stop_loss in (0, 0.5], stop_loss < take_profit when
\* take_profit itself is valid, symbol with "/", interval of its own list)
prepare_strategy_params(request) ==
    LET take_profit == IF request.take_profit = None THEN TakeProfitPct
                       ELSE request.take_profit[1]
        stop_loss == IF request.stop_loss = None THEN StopLossPct
                     ELSE request.stop_loss[1]
        take_profit_ok == 0 < take_profit /\ take_profit <= 50
    IN  /\ request.symbol # "BTCUSDT"
        /\ request.interval \in {"1h", "5m"}
        /\ take_profit_ok
        /\ 0 < stop_loss /\ stop_loss <= 50
        /\ stop_loss < take_profit

\* a validation that leaves the strategy parameters out; the rejection of
\* invalid parameters before the run is expected to fail under it
validate_request_without_params(request) ==
    (IF fetcher_validate_symbol(request.symbol) THEN <<>> ELSE <<"symbol">>)
    \o (IF fetcher_validate_interval(request.interval) THEN <<>> ELSE <<"interval">>)

\* BacktestEngine.validate_request: the list of errors
validate_request(request) ==
    (IF fetcher_validate_symbol(request.symbol) THEN <<>> ELSE <<"symbol">>)
    \o (IF fetcher_validate_interval(request.interval) THEN <<>> ELSE <<"interval">>)
    \o (IF prepare_strategy_params(request) THEN <<>> ELSE <<"strategy_params">>)
    \o (IF request.limit # None
           /\ (request.limit[1] < 1 \/ request.limit[1] > MaxCandlesLimit)
        THEN <<"limit">> ELSE <<>>)

ApiInit ==
    /\ api \in {[request |-> r, status |-> "received", status_code |-> 0,
                 details |-> <<>>, fetched |-> FALSE, prepared |-> FALSE,
                 strategy_ran |-> FALSE] : r \in Requests}
    /\ candles = <<>>
    /\ params = [lookback_period |-> LookbackPeriod, max_trades |-> 1,
                 initial_capital |-> InitialCapital]
    /\ pc = "api"
    /\ signals = EmptySignals
    /\ i = 1
    /\ active_trades = <<>>
    /\ trades = <<>>
    /\ available_capital = RInt(InitialCapital)
    /\ now = 0
    /\ last_check = None
    /\ result = None
    /\ failure = None
    /\ engine = EngineInit
    /\ alt = AltInit
    /\ prev = None
    /\ calc = None
    /\ runs = None

\* run_backtest / run_backtest_post: validate_request, HTTP 400 with all the
\* errors when it is not valid (api/backtest.py 110-120, 154-164)
ApiValidate ==
    /\ api # None
    /\ api.status = "received"
    /\ LET errors == validate_request(api.request)
       IN  IF errors # <<>>
           THEN api' = [api EXCEPT !.status = "rejected", !.status_code = 400,
                                   !.details = errors]
           ELSE api' = [api EXCEPT !.status = "validated"]
    /\ UNCHANGED <<runVars, calc, runs>>

\* BacktestEngine.run_backtest, step 1: the data fetch (backtest.py 41-50);
\* without candles the failed result is built
ApiFetch ==
    /\ api # None
    /\ api.status = "validated"
    /\ \E has_candles \in BOOLEAN :
          api' = [api EXCEPT !.fetched = TRUE,
                             !.status = IF has_candles THEN "fetched" ELSE "failing"]
    /\ UNCHANGED <<runVars, calc, runs>>

\* BacktestEngine.run_backtest, step 2: _prepare_strategy_params, which raises
\* on parameters StrategyParams does not accept (backtest.py 52-54, 111-130)
ApiPrepare ==
    /\ api # None
    /\ api.status = "fetched"
    /\ IF prepare_strategy_params(api.request)
       THEN api' = [api EXCEPT !.prepared = TRUE, !.status = "prepared"]
       ELSE api' = [api EXCEPT !.status = "failing"]
    /\ UNCHANGED <<runVars, calc, runs>>

\* BacktestEngine.run_backtest, steps 3 and 4: the strategy's run and the
\* result (backtest.py 56-74); the endpoint answers 500 when the result is not
\* a success (api/backtest.py 125-134)
ApiRunStrategy ==
    /\ api # None
    /\ api.status = "prepared"
    /\ \E success \in BOOLEAN :
          api' = [api EXCEPT !.strategy_ran = TRUE, !.status = "answered",
                             !.status_code = IF success THEN 200 ELSE 500]
    /\ UNCHANGED <<runVars, calc, runs>>

\* the failed result: _create_error_result raises on its data_period, the
\* endpoint's handler answers 500 (backtest.py 76-78, api/backtest.py 136-140)
ApiFailure ==
    /\ api # None
    /\ api.status = "failing"
    /\ api' = [api EXCEPT !.status = "answered", !.status_code = 500]
    /\ UNCHANGED <<runVars, calc, runs>>

NextApi ==
    \/ ApiValidate
    \/ ApiFetch
    \/ ApiPrepare
    \/ ApiRunStrategy
    \/ ApiFailure

SpecApi == ApiInit /\ [][NextApi]_vars

(* --------------------- the detectors' comparisons ---------------------- *)

\* no run in progress: the variables of a run at their initial values
NoRun ==
    /\ candles = <<>>
    /\ params = [lookback_period |-> LookbackPeriod, max_trades |-> 1,
                 initial_capital |-> InitialCapital]
    /\ pc = "idle"
    /\ signals = EmptySignals
    /\ i = 1
    /\ active_trades = <<>>
    /\ trades = <<>>
    /\ available_capital = RInt(InitialCapital)
    /\ now = 0
    /\ last_check = None
    /\ result = None
    /\ failure = None
    /\ engine = EngineInit
    /\ alt = AltInit
    /\ prev = None

\* volume ratios and adaptive thresholds around each other (the threshold is
\* never below volume_threshold = 1.5, or is NaN), and bars around a change of
\* 0.5% in both directions
BoundaryRatios == {<<7, 5>>, <<3, 2>>, <<8, 5>>, <<2, 1>>}
BoundaryThresholds == {None, Some(<<3, 2>>), Some(<<8, 5>>), Some(<<2, 1>>)}
BoundaryOpens == {200, 1000}
BoundaryMoves == {-6, -5, -4, 0, 1, 4, 5, 6}

BoundaryInit ==
    /\ calc \in [volume_ratio : BoundaryRatios, adaptive_threshold : BoundaryThresholds,
                 open : BoundaryOpens, move : BoundaryMoves,
                 volume_spike : {None}, candidate : {None}]
    /\ NoRun
    /\ api = None
    /\ runs = None

\* df['volume_spike'] of one bar (volume_analyzer.py 101-102)
EvalVolumeSpike ==
    /\ calc.volume_spike = None
    /\ calc' = [calc EXCEPT !.volume_spike =
                   Some(volume_spike(calc.volume_ratio, calc.adaptive_threshold))]
    /\ UNCHANGED <<runVars, api, runs>>

\* the candidate test of one bar (price_analyzer.py 176-179)
EvalPriceCandidate ==
    /\ calc.candidate = None
    /\ calc' = [calc EXCEPT !.candidate =
                   Some(price_change_qualifies(calc.open, calc.open + calc.move))]
    /\ UNCHANGED <<runVars, api, runs>>

NextBoundary ==
    \/ EvalVolumeSpike
    \/ EvalPriceCandidate

SpecBoundary == BoundaryInit /\ [][NextBoundary]_vars

(* ------------------- detectors on a whole series ----------------------- *)

\* the detectors' own defaults: VolumeAnalyzer.lookback_period, PriceAnalyzer
\* long_period, short_period and momentum_period, and the width of the
\* volume_trend window
DefaultLookback == 20
DefaultLongPeriod == 20
ShortPeriod == 5
MomentumPeriod == 10
TrendWindow == 5

\* largest x in lo..hi with x * x <= q
RECURSIVE SqrtSearch(_, _, _)
SqrtSearch(q, lo, hi) ==
    IF lo >= hi THEN lo
    ELSE LET mid == (lo + hi + 1) \div 2
         IN  IF mid * mid <= q THEN SqrtSearch(q, mid, hi) ELSE SqrtSearch(q, lo, mid - 1)

\* the square root of a rational >= 0, rounded down to two decimals
\* (np.sqrt inside Series.std)
Sqrt100(r) == Norm(SqrtSearch((r[1] * 10000) \div r[2], 0, 46340), 100)

\* a DataFrame column: a sequence of Some(rational) or None (NaN), one per row
Rows(col) == col \o <<>>
Column(series, field(_)) == Rows([k \in 1..Len(series) |-> Some(RInt(field(series[k])))])

\* the sum of rows from..to, by halves
RECURSIVE ColumnSum(_, _, _)
ColumnSum(col, from, to) ==
    IF from > to THEN RZero
    ELSE IF from = to THEN col[from][1]
    ELSE LET mid == (from + to) \div 2
         IN  RAdd(ColumnSum(col, from, mid), ColumnSum(col, mid + 1, to))

\* the window of n rows ending at row k holds n numbers (min_periods = window)
WindowFull(col, k, n) == k >= n /\ \A j \in (k - n + 1)..k : col[j] # None

\* Series.rolling(n).mean() at row k
rolling_mean(col, k, n) ==
    IF ~WindowFull(col, k, n) THEN None
    ELSE Some(RDiv(ColumnSum(col, k - n + 1, k), RInt(n)))

\* the sample variance (ddof = 1) of the window of n rows ending at row k
rolling_var(col, k, n) ==
    IF ~WindowFull(col, k, n) THEN None
    ELSE LET mean == rolling_mean(col, k, n)[1]
             squares == Rows([j \in 1..k |->
                            IF j < k - n + 1 THEN Some(RZero)
                            ELSE LET dev == RSub(col[j][1], mean) IN Some(RMul(dev, dev))])
         IN  Some(RDiv(ColumnSum(squares, k - n + 1, k), RInt(n - 1)))

\* Series.rolling(n).std() at row k
rolling_std(col, k, n) ==
    IF rolling_var(col, k, n) = None THEN None ELSE Some(Sqrt100(rolling_var(col, k, n)[1]))

\* VolumeAnalyzer._calculate_volume_metrics: the columns the detection reads,
\* for lookback_period n
volume_metrics(series, n) ==
    LET volume == Column(series, LAMBDA c : c.volume)
        rows == 1..Len(series)
        volume_sma == Rows([k \in rows |-> rolling_mean(volume, k, n)])
        volume_volatility == Rows([k \in rows |-> rolling_std(volume, k, n)])
        volume_variance == Rows([k \in rows |-> rolling_var(volume, k, n)])
        volatility == Rows([k \in rows |-> rolling_mean(volume_volatility, k, n)])
        volume_ratio == Rows([k \in rows |->
            IF volume_sma[k] = None THEN None
            ELSE Some(RDiv(volume[k][1], volume_sma[k][1]))])
        adaptive_threshold == Rows([k \in rows |->
            IF volatility[k] = None THEN None
            ELSE Some(RMul(<<3, 2>>,
                           RAdd(RInt(1), RDiv(volatility[k][1], volume_sma[k][1]))))])
    IN  [volume |-> volume,
         volume_sma |-> volume_sma,
         volume_ratio |-> volume_ratio,
         volume_variance |-> volume_variance,
         adaptive_threshold |-> adaptive_threshold,
         volume_spike |-> [k \in rows |->
            /\ volume_ratio[k] # None
            /\ volume_spike(volume_ratio[k][1], adaptive_threshold[k])],
         volume_change_pct |-> [k \in rows |->
            IF k = 1 THEN None
            ELSE Some(RSub(RDiv(volume[k][1], volume[k - 1][1]), RInt(1)))],
         volume_trend |-> [k \in rows |->
            IF k < TrendWindow THEN None
            ELSE IF RLess(volume[k - TrendWindow + 1][1], volume[k][1]) THEN Some(1)
            ELSE Some(-1)]]

\* VolumeAnalyzer._count_consecutive_volume_spikes: rows k, k-1, ... down to
\* max(0, index - 5) exclusive, until the first row that is no spike
RECURSIVE count_consecutive_volume_spikes(_, _, _)
count_consecutive_volume_spikes(df, k, left) ==
    IF left = 0 \/ k < 1 \/ ~df.volume_spike[k] THEN 0
    ELSE 1 + count_consecutive_volume_spikes(df, k - 1, left - 1)

\* a confirmation whose strength is not capped at 1; the property about the
\* range of strength and confidence is expected to fail under it
volume_confirmation_uncapped(df, k) ==
    LET ratio == df.volume_ratio[k][1]
        change == IF df.volume_change_pct[k] = None THEN RZero
                  ELSE <<Abs(df.volume_change_pct[k][1][1]), df.volume_change_pct[k][1][2]>>
        spikes == count_consecutive_volume_spikes(df, k, IF k - 1 < 5 THEN k - 1 ELSE 5)
        \* volume_volatility < volume_sma * 0.1, compared on the squares
        quiet == LET tenth == RMul(df.volume_sma[k][1], <<1, 10>>)
                 IN  RLess(df.volume_variance[k][1], RMul(tenth, tenth))
        strength ==
            RAdd(RAdd(RAdd(RAdd(RAdd(<<1, 2>>,
                IF RLess(RInt(2), ratio) THEN <<3, 10>>
                ELSE IF RLess(<<3, 2>>, ratio) THEN <<1, 5>>
                ELSE IF RLess(<<6, 5>>, ratio) THEN <<1, 10>> ELSE RZero),
                IF df.volume_trend[k] # None /\ df.volume_trend[k][1] > 0
                THEN <<1, 10>> ELSE RZero),
                IF RLess(<<1, 2>>, change) THEN <<1, 5>>
                ELSE IF RLess(<<1, 5>>, change) THEN <<1, 10>> ELSE RZero),
                IF spikes > 1 THEN Norm(spikes, 10) ELSE RZero),
                IF quiet THEN <<-1, 5>> ELSE RZero)
    IN  [confirmed |-> ~quiet /\ RLess(<<3, 10>>, strength),
         strength |-> strength]

\* VolumeAnalyzer._check_volume_confirmation at a spike row k
check_volume_confirmation(df, k) ==
    LET ratio == df.volume_ratio[k][1]
        change == IF df.volume_change_pct[k] = None THEN RZero
                  ELSE <<Abs(df.volume_change_pct[k][1][1]), df.volume_change_pct[k][1][2]>>
        spikes == count_consecutive_volume_spikes(df, k, IF k - 1 < 5 THEN k - 1 ELSE 5)
        \* volume_volatility < volume_sma * 0.1, compared on the squares
        quiet == LET tenth == RMul(df.volume_sma[k][1], <<1, 10>>)
                 IN  RLess(df.volume_variance[k][1], RMul(tenth, tenth))
        strength ==
            RAdd(RAdd(RAdd(RAdd(RAdd(<<1, 2>>,
                IF RLess(RInt(2), ratio) THEN <<3, 10>>
                ELSE IF RLess(<<3, 2>>, ratio) THEN <<1, 5>>
                ELSE IF RLess(<<6, 5>>, ratio) THEN <<1, 10>> ELSE RZero),
                IF df.volume_trend[k] # None /\ df.volume_trend[k][1] > 0
                THEN <<1, 10>> ELSE RZero),
                IF RLess(<<1, 2>>, change) THEN <<1, 5>>
                ELSE IF RLess(<<1, 5>>, change) THEN <<1, 10>> ELSE RZero),
                IF spikes > 1 THEN Norm(spikes, 10) ELSE RZero),
                IF quiet THEN <<-1, 5>> ELSE RZero)
    IN  [confirmed |-> ~quiet /\ RLess(<<3, 10>>, strength),
         strength |-> RMin(strength, RInt(1))]

\* VolumeAnalyzer.analyze: the volume signals of a series, by timestamp
volume_analyze(series, n) ==
    IF Len(series) < n + 1 THEN [t \in {} |-> None]
    ELSE LET df == volume_metrics(series, n)
             at == { k \in (n + 1)..Len(series) :
                        df.volume_spike[k] /\ check_volume_confirmation(df, k).confirmed }
         IN  [k \in at |->
                [type |-> "volume", direction |-> "unknown",
                 strength |-> check_volume_confirmation(df, k).strength,
                 confidence |-> check_volume_confirmation(df, k).strength]]

RECURSIVE ColumnMax(_, _, _)
ColumnMax(col, from, to) ==
    IF from = to THEN col[from][1]
    ELSE LET mid == (from + to) \div 2
         IN  RMax(ColumnMax(col, from, mid), ColumnMax(col, mid + 1, to))

RECURSIVE ColumnMin(_, _, _)
ColumnMin(col, from, to) ==
    IF from = to THEN col[from][1]
    ELSE LET mid == (from + to) \div 2
         IN  RMin(ColumnMin(col, from, mid), ColumnMin(col, mid + 1, to))

\* PriceAnalyzer._calculate_price_metrics: the columns the detection reads
price_metrics(series) ==
    LET rows == 1..Len(series)
        open == Column(series, LAMBDA c : c.open)
        close == Column(series, LAMBDA c : c.close)
        high == Column(series, LAMBDA c : c.high)
        low == Column(series, LAMBDA c : c.low)
        close_change_pct == Rows([k \in rows |->
            IF k = 1 THEN None
            ELSE Some(RSub(RDiv(close[k][1], close[k - 1][1]), RInt(1)))])
        sma_short == Rows([k \in rows |-> rolling_mean(close, k, ShortPeriod)])
        sma_long == Rows([k \in rows |-> rolling_mean(close, k, DefaultLongPeriod)])
        resistance == Rows([k \in rows |->
            IF k < DefaultLongPeriod THEN None
            ELSE Some(ColumnMax(high, k - DefaultLongPeriod + 1, k))])
        support == Rows([k \in rows |->
            IF k < DefaultLongPeriod THEN None
            ELSE Some(ColumnMin(low, k - DefaultLongPeriod + 1, k))])
    IN  [close |-> close,
         price_change_pct |-> [k \in rows |->
            RDiv(RSub(close[k][1], open[k][1]), open[k][1])],
         trend_short |-> [k \in rows |->
            IF sma_short[k] = None THEN None ELSE Some(RSub(close[k][1], sma_short[k][1]))],
         trend_long |-> [k \in rows |->
            IF sma_long[k] = None THEN None ELSE Some(RSub(close[k][1], sma_long[k][1]))],
         momentum |-> [k \in rows |->
            IF k <= MomentumPeriod THEN None
            ELSE Some(RSub(RDiv(close[k][1], close[k - MomentumPeriod][1]), RInt(1)))],
         variance |-> [k \in rows |-> rolling_var(close_change_pct, k, DefaultLongPeriod)],
         resistance |-> resistance,
         support |-> support,
         \* 0 / 0 is NaN: when the highs and lows of the window coincide the close
         \* equals both
         price_position |-> [k \in rows |->
            IF resistance[k] = None \/ resistance[k] = support[k] THEN None
            ELSE Some(RDiv(RSub(close[k][1], support[k][1]),
                           RSub(resistance[k][1], support[k][1])))],
         breakout_up |-> [k \in rows |->
            k > 1 /\ resistance[k - 1] # None /\ RLess(resistance[k - 1][1], close[k][1])],
         breakout_down |-> [k \in rows |->
            k > 1 /\ support[k - 1] # None /\ RLess(close[k][1], support[k - 1][1])]]

\* a comparison with NaN is false
Positive(x) == x # None /\ x[1][1] > 0
Negative(x) == x # None /\ x[1][1] < 0

\* PriceAnalyzer._analyze_price_movement at row k
analyze_price_movement(df, k) ==
    LET pct == df.price_change_pct[k]
        long == pct[1] > 0
        size == <<Abs(pct[1]), pct[2]>>
        trend == IF long THEN Positive(df.trend_short[k]) ELSE Negative(df.trend_short[k])
        aligned == IF long THEN Positive(df.trend_long[k]) ELSE Negative(df.trend_long[k])
        moving == IF long THEN Positive(df.momentum[k]) ELSE Negative(df.momentum[k])
        breakout == IF long THEN df.breakout_up[k] ELSE df.breakout_down[k]
        position == /\ df.price_position[k] # None
                    /\ IF long THEN RLess(<<4, 5>>, df.price_position[k][1])
                       ELSE RLess(df.price_position[k][1], <<1, 5>>)
        \* volatility < 0.01, compared on the squares
        calm == df.variance[k] # None /\ RLess(df.variance[k][1], <<1, 10000>>)
        strength ==
            RAdd(RAdd(RAdd(RAdd(RAdd(RAdd(
                IF RLess(<<1, 50>>, size) THEN <<2, 5>>
                ELSE IF RLess(<<1, 100>>, size) THEN <<3, 10>>
                ELSE IF RLess(<<1, 200>>, size) THEN <<1, 5>> ELSE RZero,
                IF trend THEN <<1, 5>> ELSE RZero),
                IF aligned THEN <<1, 10>> ELSE RZero),
                IF moving THEN <<1, 10>> ELSE RZero),
                IF breakout THEN <<1, 5>> ELSE RZero),
                IF position THEN <<1, 10>> ELSE RZero),
                IF calm THEN <<-1, 5>> ELSE RZero)
        confidence ==
            RAdd(RAdd(IF trend THEN <<1, 5>> ELSE RZero,
                      IF aligned THEN <<1, 10>> ELSE RZero),
                      IF breakout THEN <<1, 5>> ELSE RZero)
    IN  [signal_detected |-> RLess(<<3, 10>>, strength),
         direction |-> IF long THEN "long" ELSE "short",
         strength |-> RMin(strength, RInt(1)),
         confidence |-> RMin(confidence, RInt(1))]

\* PriceAnalyzer.analyze: the price signals of a series, by timestamp
price_analyze(series) ==
    IF Len(series) < DefaultLongPeriod + 1 THEN [t \in {} |-> None]
    ELSE LET df == price_metrics(series)
             at == { k \in (DefaultLongPeriod + 1)..Len(series) :
                        /\ price_change_qualifies(series[k].open, series[k].close)
                        /\ analyze_price_movement(df, k).signal_detected }
         IN  [k \in at |->
                [type |-> "price",
                 direction |-> analyze_price_movement(df, k).direction,
                 strength |-> analyze_price_movement(df, k).strength,
                 confidence |-> analyze_price_movement(df, k).confidence]]

(* ------------------- SignalCombiner and the risk filter ---------------- *)

\* the sum of a function's values over a set of its arguments
RECURSIVE ValueSum(_, _)
ValueSum(f, S) ==
    IF S = {} THEN RZero
    ELSE LET t == CHOOSE t \in S : TRUE
         IN  RAdd(f[t], ValueSum(f, S \ {t}))

Strengths(sigs) == [t \in DOMAIN sigs |-> sigs[t].strength]
Confidences(sigs) == [t \in DOMAIN sigs |-> sigs[t].confidence]

\* SignalCombiner._calculate_volume_score and _calculate_price_score
calculate_score(sigs, S) ==
    IF S = {} THEN RZero
    ELSE LET n == Cardinality(S)
             avg_strength == RDiv(ValueSum(Strengths(sigs), S), RInt(n))
             count_boost == RMin(Norm(n, 10), <<3, 10>>)
         IN  RMin(RAdd(avg_strength, count_boost), RInt(1))

\* SignalCombiner._calculate_momentum_score: the candle closest to the
\* timestamp is the candle of the signal
calculate_momentum_score(series, t) ==
    LET change == Norm(Abs(series[t].close - series[t].open), series[t].open)
    IN  RMin(RMul(change, RInt(10)), RInt(1))

\* a direction vote whose tie-break looks at the price signals only; the
\* property about the vote is expected to fail under it
direction_by_price_signals(vs, V, ps, P) ==
    LET long_count == Cardinality({t \in P : ps[t].direction = "long"})
        short_count == Cardinality({t \in P : ps[t].direction = "short"})
    IN  IF long_count > short_count THEN "long"
        ELSE IF short_count > long_count THEN "short"
        ELSE IF P = {} THEN "unknown"
        ELSE ps[CHOOSE t \in P : \A u \in P : RLess(ps[u].strength, ps[t].strength) \/ t <= u].direction

\* SignalCombiner._determine_signal_direction: the majority of long and short;
\* on a tie the direction of the strongest signal, the first one of the volume
\* signals followed by the price signals
determine_signal_direction(vs, V, ps, P) ==
    LET long_count == Cardinality({t \in P : ps[t].direction = "long"})
        short_count == Cardinality({t \in P : ps[t].direction = "short"})
    IN  IF V = {} /\ P = {} THEN "unknown"
        ELSE IF long_count > short_count THEN "long"
        ELSE IF short_count > long_count THEN "short"
        ELSE IF \E v \in V : \A t \in P : RLeq(ps[t].strength, vs[v].strength) THEN "unknown"
        ELSE LET first == CHOOSE t \in P :
                              /\ \A u \in P : RLeq(ps[u].strength, ps[t].strength)
                              /\ \A u \in P : ps[u].strength = ps[t].strength => t <= u
             IN  ps[first].direction

\* SignalCombiner._calculate_combined_confidence
calculate_combined_confidence(vs, V, ps, P) ==
    IF V = {} /\ P = {} THEN RZero
    ELSE LET n == Cardinality(V) + Cardinality(P)
             total == RAdd(ValueSum(Confidences(vs), V), ValueSum(Confidences(ps), P))
         IN  RMin(RAdd(RDiv(total, RInt(n)), RMin(Norm(n, 20), <<1, 5>>)), RInt(1))

\* SignalCombiner._create_combined_signal for the signals within the window
\* of `window` candles (signal_timeout = 300 s) around timestamp t
create_combined_signal(series, vs, ps, t, window) ==
    LET V == {k \in DOMAIN vs : Abs(k - t) <= window}
        P == {k \in DOMAIN ps : Abs(k - t) <= window}
        volume_score == calculate_score(vs, V)
        price_score == calculate_score(ps, P)
        momentum_score == calculate_momentum_score(series, t)
    IN  [timestamp |-> t,
         type |-> "combined",
         direction |-> determine_signal_direction(vs, V, ps, P),
         strength |-> RAdd(RAdd(RMul(volume_score, <<2, 5>>), RMul(price_score, <<2, 5>>)),
                           RMul(momentum_score, <<1, 5>>)),
         confidence |-> calculate_combined_confidence(vs, V, ps, P),
         volume_score |-> volume_score,
         price_score |-> price_score,
         momentum_score |-> momentum_score]

\* SignalCombiner._calculate_final_quality_score
calculate_final_quality_score(signal) ==
    LET bonus == IF RLess(<<1, 2>>, signal.volume_score) /\ RLess(<<1, 2>>, signal.price_score)
                 THEN <<1, 5>>
                 ELSE IF RLess(<<3, 10>>, signal.volume_score)
                         /\ RLess(<<3, 10>>, signal.price_score)
                 THEN <<1, 10>> ELSE RZero
        momentum == IF RLess(<<1, 2>>, signal.momentum_score) THEN <<1, 10>> ELSE RZero
    IN  RMin(RAdd(RAdd(RAdd(RMul(signal.strength, <<2, 5>>), RMul(signal.confidence, <<3, 10>>)),
                       bonus), momentum), RInt(1))

\* the elements of a set of timestamps in ascending order
RECURSIVE Ascending(_)
Ascending(S) ==
    IF S = {} THEN <<>>
    ELSE LET least == CHOOSE t \in S : \A u \in S : t <= u
         IN  <<least>> \o Ascending(S \ {least})

\* SignalCombiner._combine_by_timestamp: one combined signal per timestamp
\* that carries a volume or a price signal
combine_by_timestamp(series, vs, ps, window) ==
    LET order == Ascending(DOMAIN vs \cup DOMAIN ps)
    IN  [k \in 1..Len(order) |-> create_combined_signal(series, vs, ps, order[k], window)]

\* list.sort(key = quality_score, reverse = True): stable, highest first
RECURSIVE SortByQuality(_)
SortByQuality(sigs) ==
    IF sigs = <<>> THEN <<>>
    ELSE LET best == CHOOSE k \in 1..Len(sigs) :
                        /\ \A j \in 1..Len(sigs) :
                              RLeq(sigs[j].quality_score, sigs[k].quality_score)
                        /\ \A j \in 1..(k - 1) : sigs[j].quality_score # sigs[k].quality_score
         IN  <<sigs[best]>> \o
             SortByQuality(SubSeq(sigs, 1, best - 1) \o SubSeq(sigs, best + 1, Len(sigs)))

\* SignalCombiner._filter_and_score_signals: min_combined_score = 0.5
filter_and_score_signals(combined) ==
    LET kept == SelectSeq(combined, LAMBDA g : RLeq(<<1, 2>>, g.strength))
    IN  SortByQuality([k \in 1..Len(kept) |->
            kept[k] @@ [quality_score |-> calculate_final_quality_score(kept[k])]])

\* SignalCombiner.combine_signals
combine_signals(series, vs, ps, window) ==
    IF DOMAIN vs = {} /\ DOMAIN ps = {} THEN <<>>
    ELSE filter_and_score_signals(combine_by_timestamp(series, vs, ps, window))

\* RiskManager._calculate_signal_quality: a combined signal has neither the
\* type volume_spike nor a momentum key
calculate_signal_quality(signal) ==
    RMin(RAdd(RMul(signal.strength, <<2, 5>>), RMul(signal.confidence, <<3, 10>>)), RInt(1))

\* RiskManager._apply_risk_management: the signal with its quality_score
\* replaced, or None
apply_risk_management(signal) ==
    LET scored == [signal EXCEPT !.quality_score = calculate_signal_quality(signal)]
    IN  IF RLess(scored.quality_score, <<3, 10>>) THEN None ELSE Some(scored)

\* a validation that leaves out the strength check; the property about the
\* filter is expected to fail under it
validate_without_strength(signal) ==
    /\ ~RLess(signal.quality_score, <<3, 10>>)
    /\ ~RLess(signal.confidence, <<1, 5>>)

\* RiskManager._validate_risk_criteria
validate_risk_criteria(signal) ==
    /\ ~RLess(signal.quality_score, <<3, 10>>)
    /\ ~RLess(signal.strength, <<3, 10>>)
    /\ ~RLess(signal.confidence, <<1, 5>>)

\* RiskManager.filter_signals
RECURSIVE filter_signals(_)
filter_signals(sigs) ==
    IF sigs = <<>> THEN <<>>
    ELSE LET risk_managed_signal == apply_risk_management(Head(sigs))
         IN  (IF risk_managed_signal # None /\ validate_risk_criteria(risk_managed_signal[1])
              THEN <<risk_managed_signal[1]>> ELSE <<>>) \o filter_signals(Tail(sigs))

\* _execute_backtest's signal_lookup: timestamp -> signal, a later signal of
\* the list replacing an earlier one with the same timestamp
signal_lookup(sigs) ==
    [t \in {sigs[k].timestamp : k \in DOMAIN sigs} |->
        LET last == CHOOSE k \in DOMAIN sigs :
                       /\ sigs[k].timestamp = t
                       /\ \A j \in DOMAIN sigs : sigs[j].timestamp = t => j <= k
        IN  [direction |-> sigs[last].direction, quality_score |-> sigs[last].quality_score]]

(* -------------------- the pipeline on a spike series ------------------- *)

DefaultMaxTrades == 100

\* series of flat candles with one candle whose volume is three times the
\* volume of the others and whose close is 3% above its open; the candles after
\* it hold the new price; every candle has the same wick above and below
ScenarioCases ==
    { [length |-> 25, spike |-> 21],
      [length |-> 45, spike |-> 21],
      [length |-> 45, spike |-> 41] }
ScenarioPrices == {100, 200}
ScenarioVolumes == {10, 100}
ScenarioWicks == {0, 1}
\* candles within signal_timeout = 300 s of each other: none of an hourly
\* series, five of a one-minute series
ScenarioWindows == {0, 5}

ScenarioSeries(case, price, volume, wick) ==
    LET raised == (price * 103) \div 100
    IN  [k \in 1..case.length |->
            IF k < case.spike
            THEN [open |-> price, high |-> price + wick, low |-> price - wick,
                  close |-> price, volume |-> volume]
            ELSE IF k = case.spike
            THEN [open |-> price, high |-> raised + wick, low |-> price - wick,
                  close |-> raised, volume |-> 3 * volume]
            ELSE [open |-> raised, high |-> raised + wick, low |-> raised - wick,
                  close |-> raised, volume |-> volume]]

ScenarioInit ==
    /\ \E case \in ScenarioCases, price \in ScenarioPrices, volume \in ScenarioVolumes,
          wick \in ScenarioWicks :
          candles = ScenarioSeries(case, price, volume, wick)
    /\ params = [lookback_period |-> DefaultLookback, max_trades |-> DefaultMaxTrades,
                 initial_capital |-> InitialCapital]
    /\ pc = "run_backtest"
    /\ signals = EmptySignals
    /\ i = 1
    /\ active_trades = <<>>
    /\ trades = <<>>
    /\ available_capital = RInt(InitialCapital)
    /\ now = 0
    /\ last_check = None
    /\ result = None
    /\ failure = None
    /\ engine = EngineInit
    /\ alt = AltInit
    /\ prev = None
    /\ calc \in [window : ScenarioWindows, volume_signals : {None}, price_signals : {None},
                 combined_signals : {None}]
    /\ api = None
    /\ runs = None

scenarioKept == <<candles, params, simVars, now, result, failure, engine, alt, prev,
                  api, runs>>

\* detect_signals, step 1 (strategy.py 51-61)
VolumeAnalysis ==
    /\ pc = "run_backtest"
    /\ calc # None
    /\ Len(candles) >= params.lookback_period + 1
    /\ calc' = [calc EXCEPT !.volume_signals = Some(volume_analyze(candles, DefaultLookback))]
    /\ pc' = "volume_analysis"
    /\ UNCHANGED <<signals, scenarioKept>>

\* detect_signals, step 2 (strategy.py 63-66)
PriceAnalysis ==
    /\ pc = "volume_analysis"
    /\ calc' = [calc EXCEPT !.price_signals = Some(price_analyze(candles))]
    /\ pc' = "price_analysis"
    /\ UNCHANGED <<signals, scenarioKept>>

\* detect_signals, step 3 (strategy.py 68-73)
CombineSignals ==
    /\ pc = "price_analysis"
    /\ calc' = [calc EXCEPT !.combined_signals =
                   Some(combine_signals(candles, calc.volume_signals[1],
                                        calc.price_signals[1], calc.window))]
    /\ pc' = "combine_signals"
    /\ UNCHANGED <<signals, scenarioKept>>

\* detect_signals, step 4, and its return to run_backtest (strategy.py 75-80)
FilterSignals ==
    /\ pc = "combine_signals"
    /\ signals' = signal_lookup(filter_signals(calc.combined_signals[1]))
    /\ pc' = "detected"
    /\ UNCHANGED <<calc, scenarioKept>>

NextScenario ==
    \/ VolumeAnalysis
    \/ PriceAnalysis
    \/ CombineSignals
    \/ FilterSignals
    \/ CheckSignals
    \/ ProcessCandle
    \/ CloseRemaining
    \/ ReturnResult

SpecScenario == ScenarioInit /\ [][NextScenario]_vars

(* ---------------- two runs on the service's one strategy --------------- *)

\* api/backtest.py keeps one BacktestEngine, hence one HybridStrategy, for all
\* requests.  A run's candles, signals, trade lists and capital counter are
\* locals of its own run_backtest / _execute_backtest frames; the strategy
\* object holds the configuration only.
RunIds == {1, 2}

\* series of lookback_period + 1 candles that begin flat
RunSeries ==
    { s \in SeriesOf(LookbackPeriod + 1) : \A k \in 1..LongPeriod : s[k].close = s[k].open }

RunParams ==
    [lookback_period |-> LookbackPeriod, max_trades |-> 1, initial_capital |-> InitialCapital]

\* the inputs of a run: a series, and detect_signals' result for it with at
\* most one signal, of a known direction
RunInputs ==
    UNION { { [candles |-> s, signals |-> g] :
                g \in { h \in DetectableSignals(s, RunParams) :
                          /\ Cardinality(DOMAIN h) <= 1
                          /\ \A t \in DOMAIN h : h[t].direction # "unknown" } } :
            s \in RunSeries }

\* the frame of a run at its start
RunStart(input) ==
    [candles |-> input.candles,
     params |-> RunParams,
     detected |-> input.signals,
     pc |-> "run_backtest",
     signals |-> EmptySignals,
     i |-> 1,
     active_trades |-> <<>>,
     trades |-> <<>>,
     available_capital |-> RInt(InitialCapital),
     clocks |-> <<>>,
     result |-> None]

\* a capital counter that belongs to the strategy object instead of the frame:
\* every run reads the counter of run 1; independence is expected to fail
\* under it
SharedCapital(frames, r) == frames[1].available_capital

\* the capital counter a step of run r reads: the local of its own frame
\* (strategy.py 145)
RunCapital(frames, r) == frames[r].available_capital

\* one step of a run on its frame l: detect_signals, "if not signals", one
\* iteration of the candle loop, the closing of the remaining trades, or the
\* result (strategy.py 86-134, 136-203)
StepRun(l, capital, clock) ==
    IF l.pc = "run_backtest"
    THEN [l EXCEPT !.signals = l.detected, !.pc = "detected"]
    ELSE IF l.pc = "detected"
    THEN IF DOMAIN l.signals = {}
         THEN [l EXCEPT !.result = Some(create_empty_backtest_result(l.candles, l.params)),
                        !.pc = "returned"]
         ELSE [l EXCEPT !.pc = "loop"]
    ELSE IF l.pc = "loop" /\ l.i <= Len(l.candles)
    THEN LET candle == CandleAt(l.candles, l.i)
             ex == ExitLoop(1, l.active_trades, l.active_trades, l.trades, capital,
                            None, candle)
             enter == CanEnter(ex.active, ex.trades, l.params.max_trades,
                               candle.timestamp, l.signals)
             trade == IF enter
                      THEN create_trade(l.signals[candle.timestamp], candle, ex.capital, clock)
                      ELSE None
         IN  [l EXCEPT !.trades = ex.trades,
                       !.active_trades =
                           IF trade # None THEN Append(ex.active, trade[1]) ELSE ex.active,
                       !.available_capital =
                           IF trade # None THEN RSub(ex.capital, trade[1].size)
                           ELSE ex.capital,
                       !.clocks = IF enter THEN Append(l.clocks, clock) ELSE l.clocks,
                       !.i = l.i + 1]
    ELSE IF l.pc = "loop"
    THEN LET closed == [k \in 1..Len(l.active_trades) |->
                           ForceClose(l.active_trades[k], CandleAt(l.candles, Len(l.candles)))]
         IN  [l EXCEPT !.trades = l.trades \o closed,
                       !.active_trades = closed,
                       !.pc = "statistics"]
    ELSE IF l.pc = "statistics"
    THEN [l EXCEPT !.result = Some(backtest_result(l.candles, l.trades, l.params)),
                   !.pc = "returned"]
    ELSE l

\* the step of frame l opens a position check that reads the clock
ReadsClock(l) ==
    /\ l.pc = "loop"
    /\ l.i <= Len(l.candles)
    /\ LET candle == CandleAt(l.candles, l.i)
           ex == ExitLoop(1, l.active_trades, l.active_trades, l.trades,
                          l.available_capital, None, candle)
       IN  CanEnter(ex.active, ex.trades, l.params.max_trades, candle.timestamp, l.signals)

\* the run executed alone from frame l, with the clock readings `clocks` for
\* its create_trade calls
RECURSIVE RunAlone(_, _)
RunAlone(l, clocks) ==
    IF l.pc = "returned" THEN l
    ELSE IF ReadsClock(l)
    THEN RunAlone(StepRun(l, l.available_capital, Head(clocks)), Tail(clocks))
    ELSE RunAlone(StepRun(l, l.available_capital, 0), clocks)

ConcurrentInit ==
    /\ runs \in [RunIds -> {RunStart(input) : input \in RunInputs}]
    /\ NoRun
    /\ api = None
    /\ calc = None

\* a worker advances its run by one step; the other run's frame is untouched
RunStep ==
    \E r \in RunIds :
        /\ runs[r].pc # "returned"
        /\ \E clock \in IF ReadsClock(runs[r]) THEN {now, now + 1} ELSE {now} :
              /\ runs' = [runs EXCEPT ![r] = StepRun(runs[r], RunCapital(runs, r), clock)]
              /\ now' = clock
        /\ UNCHANGED <<candles, params, pc, signals, simVars, result, failure, engine, alt,
                       prev, api, calc>>

NextConcurrent == RunStep

SpecConcurrent == ConcurrentInit /\ [][NextConcurrent]_vars

(* ------------------ statistics of a closed-trade list ------------------ *)

MaxStatTrades == 3

\* the PnL a closed trade can carry: unset, flat, a win or a loss
StatPnls == {None} \cup {Some(RInt(v)) : v \in -2..2}

StatTradeLists == UNION {[1..n -> [pnl : StatPnls]] : n \in 0..MaxStatTrades}

StatsInit ==
    /\ calc \in [trades : StatTradeLists, statistics : {None}, walk : {None}]
    /\ NoRun
    /\ api = None
    /\ runs = None

\* strategy.py: statistics = self._calculate_statistics(self.trades, initial_capital)
CalculateStatistics ==
    /\ calc.statistics = None
    /\ calc' = [calc EXCEPT !.statistics =
                   Some(calculate_statistics(calc.trades, InitialCapital))]
    /\ UNCHANGED <<runVars, api, runs>>

\* the drawdown loop of strategy/hybrid_strategy.py on the same list; adding an
\* unset PnL raises TypeError
WalkDrawdown ==
    /\ calc.walk = None
    /\ calc' = [calc EXCEPT !.walk =
                   IF \E k \in DOMAIN calc.trades : calc.trades[k].pnl = None
                   THEN Some([raised |-> "TypeError"])
                   ELSE Some([max_drawdown |-> walk_max_drawdown(calc.trades)])]
    /\ UNCHANGED <<runVars, api, runs>>

NextStats ==
    \/ CalculateStatistics
    \/ WalkDrawdown

SpecStats == StatsInit /\ [][NextStats]_vars

(* ------------------- the risk filter on a signal list ------------------ *)

MaxFilterSignals == 2

\* strengths and confidences on both sides of the thresholds 0.3 and 0.2
FilterStrengths == {<<29, 100>>, <<3, 10>>, <<1, 1>>}

FilterConfidences == {<<19, 100>>, <<1, 5>>, <<1, 1>>}

\* the score the combiner left on the signal
FilterPriorScores == {<<0, 1>>, <<1, 1>>}

\* combined signals as SignalCombiner.combine_signals returns them: one per
\* timestamp, in the combiner's order (by score, not by time)
FilterSignalLists ==
    UNION {{sigs \in [1..n -> [timestamp : 1..MaxFilterSignals, type : {"combined"},
                               direction : {"long"}, strength : FilterStrengths,
                               confidence : FilterConfidences,
                               quality_score : FilterPriorScores]] :
                \A j, k \in 1..n : j # k => sigs[j].timestamp # sigs[k].timestamp} :
           n \in 0..MaxFilterSignals}

FilterInit ==
    /\ calc \in [signals : FilterSignalLists, final_signals : {None}, signal_lookup : {None}]
    /\ NoRun
    /\ api = None
    /\ runs = None

\* detect_signals, step 4: final_signals = self.risk_manager.filter_signals(...)
ApplyRiskFilter ==
    /\ calc.final_signals = None
    /\ calc' = [calc EXCEPT !.final_signals = Some(filter_signals(calc.signals))]
    /\ UNCHANGED <<runVars, api, runs>>

\* _execute_backtest: the lookup that decides which candles may open a trade
BuildSignalLookup ==
    /\ calc.final_signals # None
    /\ calc.signal_lookup = None
    /\ calc' = [calc EXCEPT !.signal_lookup = Some(signal_lookup(calc.final_signals[1]))]
    /\ UNCHANGED <<runVars, api, runs>>

NextFilter ==
    \/ ApplyRiskFilter
    \/ BuildSignalLookup

SpecFilter == FilterInit /\ [][NextFilter]_vars

(* ---------------- the direction of a combined signal ------------------- *)

MaxConstituents == 2

VoteStrengths == {<<1, 2>>, <<1, 1>>}

\* the volume signals of one fusion window, by timestamp; _signals_to_dataframe
\* gives them the direction 'unknown'
VoteVolumeSignals ==
    UNION {[S -> [type : {"volume"}, direction : {"unknown"}, strength : VoteStrengths,
                  confidence : {<<1, 2>>}]] : S \in SUBSET (1..MaxConstituents)}

\* the price signals of the window, by timestamp
VotePriceSignals ==
    UNION {[S -> [type : {"price"}, direction : {"long", "short"}, strength : VoteStrengths,
                  confidence : {<<1, 2>>}]] : S \in SUBSET (1..MaxConstituents)}

\* _combine_by_timestamp calls _create_combined_signal for a window that holds
\* at least one signal
VoteInit ==
    /\ calc \in {c \in [volume_signals : VoteVolumeSignals, price_signals : VotePriceSignals,
                        direction : {None}] :
                    DOMAIN c.volume_signals # {} \/ DOMAIN c.price_signals # {}}
    /\ NoRun
    /\ api = None
    /\ runs = None

\* _create_combined_signal: direction = self._determine_signal_direction(...)
DetermineDirection ==
    /\ calc.direction = None
    /\ calc' = [calc EXCEPT !.direction =
                   Some(determine_signal_direction(calc.volume_signals, DOMAIN calc.volume_signals,
                                                   calc.price_signals, DOMAIN calc.price_signals))]
    /\ UNCHANGED <<runVars, api, runs>>

NextVote == DetermineDirection

SpecVote == VoteInit /\ [][NextVote]_vars

(* ------------------- create_trade on any capital ----------------------- *)

\* capital create_trade can be handed: negative, nothing, small, fractional, the
\* configured initial capital
SizingCapitals == {RInt(-1000), RZero, RInt(1), <<19, 2>>, RInt(InitialCapital)}

\* quality scores from 0 to 1, one of them small enough for the floor to apply
SizingSignals ==
    [direction : {"long", "short", "unknown"},
     quality_score : {RZero, <<1, 20>>, <<3, 10>>, RInt(1)}]

\* candles of every volatility band: a range of 0%, 2.9%, 4% and 6.1%
SizingCandles ==
    CandleShapes \cup {[open |-> 100, high |-> 104, low |-> 100, close |-> 100, volume |-> 10]}

SizingInit ==
    /\ calc \in [signal : SizingSignals, candle : SizingCandles,
                 available_capital : SizingCapitals, created : {None}]
    /\ NoRun
    /\ api = None
    /\ runs = None

\* RiskManager.create_trade(signal, current_candle, available_capital)
CreateTrade ==
    /\ calc.created = None
    /\ calc' = [calc EXCEPT !.created =
                   Some(create_trade(calc.signal, CandleAt(<<calc.candle>>, 1),
                                     calc.available_capital, 0))]
    /\ UNCHANGED <<runVars, api, runs>>

NextSizing == CreateTrade

SpecSizing == SizingInit /\ [][NextSizing]_vars

(* ------------- the entry step under the params of the run -------------- *)

\* take_profit and stop_loss of a run's StrategyParams, in percent, with
\* stop_loss < take_profit as StrategyParams requires; 2 and 1 are the values
\* the strategy object was constructed with
LevelParams ==
    {p \in [take_profit : {TakeProfitPct, 3, 5}, stop_loss : {StopLossPct, 2},
            initial_capital : {InitialCapital}, max_trades : {1}] :
        p.stop_loss < p.take_profit}

LevelCapitals == {RInt(InitialCapital), RInt(9500)}

LevelsInit ==
    /\ calc \in [params : LevelParams, signal : SignalKinds, candle : CandleShapes,
                 available_capital : LevelCapitals, created : {None}]
    /\ NoRun
    /\ api = None
    /\ runs = None

\* _execute_backtest(candles, signals, params), the entry at a signal candle:
\* trade = self.risk_manager.create_trade(signal, candle, available_capital)
EnterAtSignal ==
    /\ calc.created = None
    /\ calc' = [calc EXCEPT !.created =
                   Some(create_trade(calc.signal, CandleAt(<<calc.candle>>, 1),
                                     calc.available_capital, 0))]
    /\ UNCHANGED <<runVars, api, runs>>

NextLevels == EnterAtSignal

SpecLevels == LevelsInit /\ [][NextLevels]_vars

(* ------------------------------ properties ----------------------------- *)

\* the trades of the returned result, <<>> while no result was returned
ReturnedTrades == IF result = None THEN <<>> ELSE result[1].trades

\* C1: at every step of the candle loop at most one trade is open, and the
\* signal loop of hybrid_strategy.py holds at most one open position too
AtMostOneOpenTrade ==
    /\ Len(active_trades) <= 1
    /\ Cardinality(AltOpenTrades(alt)) <= 1
    /\ (alt.current_position # None => Cardinality(AltOpenTrades(alt)) = 1)

\* a trade is open and a signal at a later candle has been passed over
SignalSkippedWhileOpen ==
    /\ pc = "loop"
    /\ Len(active_trades) = 1
    /\ \E t \in DOMAIN signals : active_trades[1].entry_time < t /\ t < i

\* C2: no two trades of the returned list overlap in [entry_time, exit_time):
\* of any two, one has exited no later than the other was entered
NoOverlappingTrades ==
    \A a, b \in DOMAIN ReturnedTrades :
        a # b =>
            LET ta == ReturnedTrades[a]
                tb == ReturnedTrades[b]
            IN  /\ ta.exit_time # None
                /\ tb.exit_time # None
                /\ \/ ta.exit_time[1] <= tb.entry_time
                   \/ tb.exit_time[1] <= ta.entry_time

\* two trades were returned, the second entered on the candle the first exited on
TradesBackToBack ==
    /\ Len(ReturnedTrades) = 2
    /\ ReturnedTrades[1].exit_time = Some(ReturnedTrades[2].entry_time)
    /\ ReturnedTrades[1].entry_time < ReturnedTrades[2].entry_time

AllTrades == {active_trades[k] : k \in DOMAIN active_trades}
                \cup {trades[k] : k \in DOMAIN trades}
                \cup {ReturnedTrades[k] : k \in DOMAIN ReturnedTrades}

\* C3: every trade create_trade made has its levels on the right sides of the
\* entry price: long stop_loss < entry_price < take_profit, short
\* take_profit < entry_price < stop_loss
LevelsOrdered ==
    \A t \in AllTrades :
        IF t.direction = "long"
        THEN RLess(t.stop_loss, t.entry_price) /\ RLess(t.entry_price, t.take_profit)
        ELSE RLess(t.take_profit, t.entry_price) /\ RLess(t.entry_price, t.stop_loss)

\* a long and a short trade were made in one run
LongAndShortTrade ==
    \E t, u \in AllTrades : t.direction = "long" /\ u.direction = "short"

\* C4: a run never makes more than max_trades trades; with max_trades = 1 and
\* signals at two or more candles the result has exactly one trade, entered at
\* the earliest signal's candle
TradeLimit ==
    /\ pc = "loop" => Len(trades) + Len(active_trades) <= params.max_trades
    /\ Len(ReturnedTrades) <= params.max_trades
    /\ (/\ result # None
        /\ failure = None
        /\ params.max_trades = 1
        /\ Cardinality(DOMAIN signals) >= 2)
       => /\ Len(ReturnedTrades) = 1
          /\ \A t \in DOMAIN signals : ReturnedTrades[1].entry_time <= t
          /\ ReturnedTrades[1].entry_time \in DOMAIN signals

\* max_trades = 1, the one trade was closed before the later signal's candle
LaterSignalDiscarded ==
    /\ params.max_trades = 1
    /\ Len(ReturnedTrades) = 1
    /\ \E t \in DOMAIN signals : ReturnedTrades[1].exit_time[1] < t

\* C5: check_exit_conditions looks at the close only, take-profit before
\* stop-loss; the exit is at the level, not at the close, and the PnL is
\* size x (exit - entry) / entry for a long, size x (entry - exit) / entry for a
\* short trade; otherwise there is no exit
ExitCheckByClose ==
    last_check # None =>
        LET t == last_check[1].trade
            close == RInt(last_check[1].close)
            info == last_check[1].info
            long == t.direction = "long"
            tp == IF long THEN RLeq(t.take_profit, close) ELSE RLeq(close, t.take_profit)
            sl == IF long THEN RLeq(close, t.stop_loss) ELSE RLeq(t.stop_loss, close)
            level == IF tp THEN t.take_profit ELSE t.stop_loss
            move == IF long THEN RSub(level, t.entry_price) ELSE RSub(t.entry_price, level)
        IN  IF tp \/ sl
            THEN /\ info # None
                 /\ info[1].should_exit
                 /\ info[1].exit_reason = (IF tp THEN "take_profit" ELSE "stop_loss")
                 /\ info[1].exit_price = level
                 /\ info[1].pnl = RDiv(RMul(t.size, move), t.entry_price)
            ELSE info = None

\* a long trade's take-profit was passed by a close above it
TakeProfitPassed ==
    /\ last_check # None
    /\ last_check[1].trade.direction = "long"
    /\ RLess(last_check[1].trade.take_profit, RInt(last_check[1].close))
    /\ last_check[1].info # None

\* size x (exit - entry) / entry for a long, size x (entry - exit) / entry for
\* a short trade
PnlFormula(t, exit_price) ==
    LET move == IF t.direction = "long" THEN RSub(exit_price, t.entry_price)
                ELSE RSub(t.entry_price, exit_price)
    IN  RDiv(RMul(t.size, move), t.entry_price)

Closed(t) ==
    /\ t.exit_time # None
    /\ t.exit_price # None
    /\ t.exit_reason # None
    /\ t.pnl # None

\* the trade still open when the series ended is closed at the final candle's
\* timestamp and close, with the given exit reason and the PnL of the formula,
\* and is in the trade list; every returned trade is closed
ForcedCloseWith(reason) ==
    /\ pc # "loop" =>
          \A k \in DOMAIN active_trades :
              LET t == active_trades[k]
                  final == candles[Len(candles)]
              IN  /\ t.exit_time = Some(Len(candles))
                  /\ t.exit_price = Some(RInt(final.close))
                  /\ t.exit_reason = Some(reason)
                  /\ t.pnl = Some(PnlFormula(t, RInt(final.close)))
                  /\ \E n \in DOMAIN trades : trades[n] = t
    /\ \A k \in DOMAIN ReturnedTrades : Closed(ReturnedTrades[k])

\* C6, as the code has it: a trade open at the end of the series is closed at
\* the final candle's timestamp and close with exit reason "manual" and the PnL
\* of the long/short formula, so every returned trade is closed
ForcedCloseManual == ForcedCloseWith("manual")

\* C6, as stated: the forced close carries the exit reason "end of data"
ForcedCloseEndOfData == ForcedCloseWith("end_of_data")

\* a trade entered before the final candle was still open at the end of the
\* series, and was closed there with a gain or a loss
OpenAtSeriesEnd ==
    /\ pc = "statistics"
    /\ Len(active_trades) = 1
    /\ active_trades[1].entry_time < Len(candles)
    /\ active_trades[1].pnl # None
    /\ active_trades[1].pnl[1][1] # 0

\* C7, as stated: a second run on the same candles, params and strategy object
\* returns the trade list and the statistics of the first, identity included
RerunIdentical ==
    (prev # None /\ result # None) =>
        /\ result[1].trades = prev[1].result.trades
        /\ result[1].statistics = prev[1].result.statistics

CountFields ==
    {"total_trades", "winning_trades", "losing_trades", "max_trade_duration",
     "min_trade_duration", "consecutive_wins", "consecutive_losses"}

AllZero(statistics) ==
    \A f \in DOMAIN statistics :
        IF f \in CountFields THEN statistics[f] = 0 ELSE statistics[f] = RZero

AllFlat(series) ==
    \A k \in DOMAIN series :
        /\ series[k].open = series[k].close
        /\ series[k].high = series[k].low
        /\ series[k].volume = series[1].volume

\* C8: a run on a zero-length or an all-flat series, or one whose signals were
\* all filtered away, returns success with no trades, all statistics zero and
\* the initial capital as final capital
NoSignalsSucceeds ==
    /\ (candles = <<>> \/ AllFlat(candles)) => (pc # "run_backtest" => DOMAIN signals = {})
    /\ (result # None /\ failure = None /\ DOMAIN signals = {}) =>
          /\ result[1].success
          /\ result[1].trades = <<>>
          /\ AllZero(result[1].statistics)
          /\ Cardinality(DOMAIN result[1].statistics) = 18
          /\ result[1].final_capital = RInt(params.initial_capital)

\* a series long enough and with candidate bars, all of whose signals were
\* filtered away, has returned
EverySignalFiltered ==
    /\ result # None
    /\ failure = None
    /\ DOMAIN signals = {}
    /\ Len(candles) = MaxCandles
    /\ Cardinality(SignalTimestamps(candles)) >= 2

Insufficient == Len(candles) < params.lookback_period + 1

\* C9, as the code has it: on an empty series or one of fewer than
\* lookback_period + 1 candles the run goes neither into the simulation nor
\* into its error handler, and returns success with the message
\* "No signals detected", no trades and all statistics zero
InsufficientInputNoSignals ==
    Insufficient =>
        /\ pc \notin {"loop", "statistics"}
        /\ result # None =>
              /\ failure = None
              /\ result[1].success
              /\ result[1].error_message = Some("No signals detected")
              /\ result[1].trades = <<>>
              /\ AllZero(result[1].statistics)

\* C9, as stated: on empty or insufficient input the result has success = false,
\* a message and all statistics zero
InsufficientInputFails ==
    (Insufficient /\ result # None) =>
        /\ ~result[1].success
        /\ result[1].error_message # None
        /\ AllZero(result[1].statistics)

\* a series with candidate bars but shorter than lookback_period + 1 has returned
ShortSeriesReturned ==
    /\ Insufficient
    /\ result # None
    /\ candles # <<>>
    /\ SignalTimestamps(candles) # {}

\* C10, as stated: a failure in any stage ends in a result with success = false
\* that carries a message, and no exception leaves the run, the making of the
\* failed result included
FailureReported ==
    /\ pc # "escaped"
    /\ (failure # None /\ result # None) =>
          /\ ~result[1].success
          /\ result[1].error_message # None
    /\ (failure # None /\ engine.status = "returned") => ~engine.success

\* the request's parameters, merged with the defaults, are not accepted by
\* StrategyParams
ParamsRejected == api # None /\ ~prepare_strategy_params(api.request)

\* C11: a request whose merged strategy parameters fail validation is answered
\* with one HTTP 400 that lists every validation error once, and nothing of the
\* run is executed for it: no data fetch, no parameter preparation inside the
\* run, no strategy run
InvalidParamsRejectedBeforeRun ==
    ParamsRejected =>
        /\ ~api.fetched
        /\ ~api.prepared
        /\ ~api.strategy_ran
        /\ api.status \in {"received", "rejected"}
        /\ api.status = "rejected" =>
              /\ api.status_code = 400
              /\ Cardinality({k \in DOMAIN api.details :
                                 api.details[k] = "strategy_params"}) = 1
              /\ \A k, n \in DOMAIN api.details :
                    api.details[k] = api.details[n] => k = n
              /\ ~fetcher_validate_symbol(api.request.symbol) =>
                    \E k \in DOMAIN api.details : api.details[k] = "symbol"

\* a request that sets stop_loss only, above the default take_profit, on a
\* symbol that is not supported either, was rejected with both errors
StopLossAboveDefaultRejected ==
    /\ api # None
    /\ api.status = "rejected"
    /\ api.request.take_profit = None
    /\ api.request.stop_loss = Some(3)
    /\ api.request.symbol = "FOO/BAR"
    /\ api.request.interval = "1h"
    /\ Len(api.details) = 2

\* C12: a bar whose volume ratio equals its adaptive threshold is not a spike
\* (a spike is a ratio strictly above a threshold that is a number), and a bar
\* whose |close - open| / open equals min_price_change = 0.005 is a price
\* candidate (a candidate is a change of at least 0.005)
BoundaryComparisons ==
    /\ calc.volume_spike # None =>
          /\ Some(calc.volume_ratio) = calc.adaptive_threshold => calc.volume_spike = Some(FALSE)
          /\ calc.volume_spike[1] <=>
                /\ calc.adaptive_threshold # None
                /\ RSub(calc.volume_ratio, calc.adaptive_threshold[1])[1] > 0
    /\ calc.candidate # None =>
          LET change == RDiv(RInt(Abs(calc.move)), RInt(calc.open))
          IN  /\ change = <<1, 200>> => calc.candidate = Some(TRUE)
              /\ calc.candidate[1] <=> ~RLess(change, <<1, 200>>)

\* both tests were made on their boundaries: the ratio equal to the threshold
\* was no spike, the fall of exactly 0.5% was a candidate
BothBoundariesEvaluated ==
    /\ Some(calc.volume_ratio) = calc.adaptive_threshold
    /\ calc.volume_spike = Some(FALSE)
    /\ calc.move * 200 = -calc.open
    /\ calc.candidate = Some(TRUE)

\* C13: in the series of 25 candles whose candle 21 carries three times the
\* volume of the 20 candles before it and rises 3%, the volume detector and the
\* price detector each emit a signal at candle 21, the combined signal is long
\* and passes the combiner and the risk filter, and the run opens exactly one
\* trade, a long one
ScenarioOpensOneLongTrade ==
    (Len(candles) = 25 /\ pc = "returned") =>
        /\ 21 \in DOMAIN calc.volume_signals[1]
        /\ 21 \in DOMAIN calc.price_signals[1]
        /\ \E k \in DOMAIN calc.combined_signals[1] :
              /\ calc.combined_signals[1][k].timestamp = 21
              /\ calc.combined_signals[1][k].direction = "long"
        /\ 21 \in DOMAIN signals
        /\ Len(ReturnedTrades) = 1
        /\ ReturnedTrades[1].direction = "long"

\* the same spike on candle 41 of 45, where the rolling mean of the rolling
\* deviation is a number: the run opens one long trade at the spike
WarmedUpSpikeTrades ==
    (Len(candles) = 45 /\ pc = "returned" /\ candles[41].volume > candles[40].volume) =>
        /\ DOMAIN calc.volume_signals[1] = {41}
        /\ DOMAIN calc.price_signals[1] = {41}
        /\ DOMAIN signals = {41}
        /\ Len(ReturnedTrades) = 1
        /\ ReturnedTrades[1].direction = "long"
        /\ ReturnedTrades[1].entry_time = 41

\* in the series of 25 candles no volume signal is emitted and no trade opened
ShortSeriesNeverTrades ==
    (Len(candles) = 25 /\ pc = "returned") =>
        /\ DOMAIN calc.volume_signals[1] = {}
        /\ 21 \in DOMAIN calc.price_signals[1]
        /\ calc.combined_signals[1] = <<>>
        /\ ReturnedTrades = <<>>

SeqRange(seq) == {seq[k] : k \in DOMAIN seq}

IsWin(t) == t.pnl # None /\ t.pnl[1][1] > 0

IsLoss(t) == t.pnl # None /\ t.pnl[1][1] < 0

\* the most trades of one outcome in a stretch of the list that holds no trade
\* of the opposite outcome
LongestRun(ts, Own(_), Opposite(_)) ==
    LET runs_of == {0} \cup
            {Cardinality({k \in ab[1]..ab[2] : Own(ts[k])}) :
                ab \in {cd \in (DOMAIN ts) \X (DOMAIN ts) :
                           /\ cd[1] <= cd[2]
                           /\ \A k \in cd[1]..cd[2] : ~Opposite(ts[k])}}
    IN  CHOOSE n \in runs_of : \A m \in runs_of : m <= n

StatsComputed == calc.statistics # None

\* C16: consecutive_wins is the longest run of winning trades that no losing
\* trade interrupts, consecutive_losses the longest run of losing trades that no
\* winning trade interrupts; a flat or unset trade ends neither run
StreaksAreLongestRuns ==
    (StatsComputed /\ calc.trades # <<>>) =>
        /\ calc.statistics[1].consecutive_wins = LongestRun(calc.trades, IsWin, IsLoss)
        /\ calc.statistics[1].consecutive_losses = LongestRun(calc.trades, IsLoss, IsWin)

\* a streak of two wins that runs across a flat trade
StreakAcrossFlatTrade ==
    /\ StatsComputed
    /\ Len(calc.trades) = 3
    /\ IsWin(calc.trades[1])
    /\ ~Truthy(calc.trades[2])
    /\ IsWin(calc.trades[3])
    /\ calc.statistics[1].consecutive_wins = 2

WinPnls(ts) == SelectSeq(Pnls(ts), LAMBDA x : x[1] > 0)

LossPnls(ts) == SelectSeq(Pnls(ts), LAMBDA x : x[1] < 0)

\* C17: the profit factor is the sum of the winning trades' PnL divided by the
\* absolute sum of the losing trades' PnL, and 0 when no trade lost
ProfitFactorIsGrossRatio ==
    (StatsComputed /\ calc.trades # <<>>) =>
        LET gross_profit == RSum(WinPnls(calc.trades))
            gross_loss == RAbs(RSum(LossPnls(calc.trades)))
        IN  IF LossPnls(calc.trades) = <<>>
            THEN calc.statistics[1].profit_factor = RZero
            ELSE calc.statistics[1].profit_factor = RDiv(gross_profit, gross_loss)

\* cumulative realized PnL after the first k trades, 0 before the first one
CumulativePnl(ts, k) == RSum(SubSeq(Pnls(ts), 1, k))

\* the largest peak - current of the walk over the cumulative PnL that starts
\* at the zero baseline: the largest fall from an earlier point to a later one
BaselineDrawdown(ts) ==
    LET points == 0..Len(Pnls(ts))
        falls == {RSub(CumulativePnl(ts, jk[1]), CumulativePnl(ts, jk[2])) :
                     jk \in {ab \in points \X points : ab[1] <= ab[2]}}
    IN  CHOOSE d \in falls : \A e \in falls : RLeq(e, d)

\* C18: max_drawdown is the largest peak - current of the walk from the zero
\* baseline, it is never negative, and the loop of hybrid_strategy.py reports
\* the same value for the same list
DrawdownFromZeroBaseline ==
    (StatsComputed /\ calc.trades # <<>>) =>
        /\ calc.statistics[1].max_drawdown = BaselineDrawdown(calc.trades)
        /\ RLeq(RZero, calc.statistics[1].max_drawdown)
        /\ (calc.walk # None /\ "max_drawdown" \in DOMAIN calc.walk[1]) =>
               calc.walk[1].max_drawdown = calc.statistics[1].max_drawdown

\* C19: largest_win is the PnL of the best winning trade and largest_loss the
\* PnL of the worst losing trade, each 0 when there is no such trade, so
\* largest_win >= 0 >= largest_loss
LargestWinAndLossHaveTheirSign ==
    (StatsComputed /\ calc.trades # <<>>) =>
        /\ calc.statistics[1].largest_win =
               (IF WinPnls(calc.trades) = <<>> THEN RZero ELSE SeqMax(WinPnls(calc.trades)))
        /\ calc.statistics[1].largest_loss =
               (IF LossPnls(calc.trades) = <<>> THEN RZero ELSE SeqMin(LossPnls(calc.trades)))
        /\ RLeq(RZero, calc.statistics[1].largest_win)
        /\ RLeq(calc.statistics[1].largest_loss, RZero)

\* the score the filter attaches to a signal
AttachedQuality(signal) == calculate_signal_quality(signal)

MeetsThresholds(signal) ==
    /\ RLeq(<<3, 10>>, AttachedQuality(signal))
    /\ RLeq(<<3, 10>>, signal.strength)
    /\ RLeq(<<1, 5>>, signal.confidence)

\* C20: filter_signals returns exactly the input signals whose attached quality
\* score is >= 0.3, strength >= 0.3 and confidence >= 0.2, in input order, and
\* a signal that fails a threshold gives no entry in the lookup that opens
\* trades
FilterKeepsExactlyQualified ==
    /\ calc.final_signals # None =>
           calc.final_signals[1] =
               SelectSeq([k \in DOMAIN calc.signals |->
                             [calc.signals[k] EXCEPT !.quality_score = AttachedQuality(calc.signals[k])]],
                         MeetsThresholds)
    /\ calc.signal_lookup # None =>
           DOMAIN calc.signal_lookup[1] =
               {calc.signals[k].timestamp : k \in {j \in DOMAIN calc.signals :
                                                      MeetsThresholds(calc.signals[j])}}

\* a list whose first signal fails the strength threshold alone and whose
\* second signal passes: only the second one is returned and looked up
WeakSignalDropped ==
    /\ calc.signal_lookup # None
    /\ Len(calc.signals) = 2
    /\ RLess(calc.signals[1].strength, <<3, 10>>)
    /\ RLeq(<<3, 10>>, AttachedQuality(calc.signals[1]))
    /\ RLeq(<<1, 5>>, calc.signals[1].confidence)
    /\ Len(calc.final_signals[1]) = 1
    /\ calc.final_signals[1][1].timestamp = calc.signals[2].timestamp
    /\ DOMAIN calc.signal_lookup[1] = {calc.signals[2].timestamp}

\* the values of a function on integers as a list in ascending order of its
\* arguments
RECURSIVE InOrder(_)
InOrder(f) ==
    IF DOMAIN f = {} THEN <<>>
    ELSE LET least == CHOOSE t \in DOMAIN f : \A u \in DOMAIN f : t <= u
         IN  <<f[least]>> \o InOrder([u \in DOMAIN f \ {least} |-> f[u]])

\* the constituents of the window as the vote sees them
Constituents == InOrder(calc.volume_signals) \o InOrder(calc.price_signals)

Votes(direction) == Cardinality({k \in DOMAIN Constituents : Constituents[k].direction = direction})

\* max(all_signals, key=strength): the first constituent of the greatest strength
Strongest ==
    Constituents[CHOOSE k \in DOMAIN Constituents :
                    \A j \in DOMAIN Constituents :
                        \/ RLess(Constituents[j].strength, Constituents[k].strength)
                        \/ (Constituents[j].strength = Constituents[k].strength /\ k <= j)]

\* C21: the direction of a combined signal is long or short as the long or the
\* short constituents of its window are more; when they are as many, it is the
\* direction of the constituent with the greatest strength
DirectionIsMajorityVote ==
    ("direction" \in DOMAIN calc /\ calc.direction # None) =>
        calc.direction[1] =
            (IF Votes("long") > Votes("short") THEN "long"
             ELSE IF Votes("short") > Votes("long") THEN "short"
             ELSE Strongest.direction)

\* one long and one short price signal and a weaker volume signal: the vote is
\* tied and the stronger price signal, the short one, decides
TieDecidedByStrongest ==
    /\ "direction" \in DOMAIN calc
    /\ calc.direction = Some("short")
    /\ Votes("long") = 1
    /\ Votes("short") = 1
    /\ DOMAIN calc.volume_signals # {}
    /\ Strongest.direction = "short"
    /\ \E k \in DOMAIN Constituents :
           Constituents[k].direction = "long" /\ RLess(Constituents[k].strength, Strongest.strength)

\* a tie in which a volume signal is the strongest constituent: the direction
\* is the volume signal's 'unknown'
TieDecidedByVolumeSignal ==
    /\ "direction" \in DOMAIN calc
    /\ calc.direction = Some("unknown")
    /\ Votes("long") = 1
    /\ Votes("short") = 1

\* C22: with available capital > 0 the size of the trade create_trade returns
\* lies between 1% of the available capital and max_position_size times the
\* available capital; with available capital <= 0 the computed size is not
\* positive and create_trade returns no trade
PositionSizeWithinBounds ==
    ("created" \in DOMAIN calc /\ calc.created # None) =>
        IF calc.available_capital[1] > 0
        THEN /\ calc.created[1] # None
             /\ RLeq(RMul(calc.available_capital, Pct(MinPositionPct)), calc.created[1][1].size)
             /\ RLeq(calc.created[1][1].size, RMul(calc.available_capital, Pct(MaxPositionPct)))
        ELSE calc.created[1] = None

\* a signal of low quality on a volatile candle: the size is raised to the
\* floor of 1% of the available capital
SizeRaisedToFloor ==
    /\ "created" \in DOMAIN calc
    /\ calc.created # None
    /\ calc.created[1] # None
    /\ calc.available_capital = RInt(InitialCapital)
    /\ calc.signal.quality_score = <<1, 20>>
    /\ calc.created[1][1].size = RInt(100)

\* no trade from a capital that is not positive
NoTradeWithoutCapital ==
    /\ "created" \in DOMAIN calc
    /\ calc.created = Some(None)
    /\ calc.available_capital[1] < 0

InUnitRange(x) == RLeq(RZero, x) /\ RLeq(x, RInt(1))

SignalInRange(signal) == InUnitRange(signal.strength) /\ InUnitRange(signal.confidence)

\* C23: the signals of the volume detector, of the price detector, of the
\* combiner and of the risk filter all have strength and confidence in [0, 1]
SignalsWithinUnitRange ==
    ("combined_signals" \in DOMAIN calc) =>
        /\ calc.volume_signals # None =>
               \A t \in DOMAIN calc.volume_signals[1] : SignalInRange(calc.volume_signals[1][t])
        /\ calc.price_signals # None =>
               \A t \in DOMAIN calc.price_signals[1] : SignalInRange(calc.price_signals[1][t])
        /\ calc.combined_signals # None =>
               /\ \A k \in DOMAIN calc.combined_signals[1] :
                      SignalInRange(calc.combined_signals[1][k])
               /\ \A k \in DOMAIN filter_signals(calc.combined_signals[1]) :
                      SignalInRange(filter_signals(calc.combined_signals[1])[k])

\* a spike whose confirmation adds up to more than 1 and is emitted with
\* strength 1, in a run whose combined signal passes the risk filter
CappedSignalThroughAllStages ==
    /\ "combined_signals" \in DOMAIN calc
    /\ pc = "detected"
    /\ \E t \in DOMAIN calc.volume_signals[1] :
           /\ calc.volume_signals[1][t].strength = RInt(1)
           /\ RLess(RInt(1), volume_confirmation_uncapped(volume_metrics(candles, DefaultLookback), t).strength)
    /\ DOMAIN calc.price_signals[1] # {}
    /\ filter_signals(calc.combined_signals[1]) # <<>>

\* volume / rolling_mean > 1.5 * (1 + rolling_std / rolling_mean) at row k, with
\* the mean and the deviation of the window ending at k; compared on the squares
SpikeByWindowDeviation(df, k) ==
    LET mean == df.volume_sma[k][1]
        margin == RMul(RSub(RMul(df.volume_ratio[k][1], <<2, 3>>), RInt(1)), mean)
    IN  /\ margin[1] > 0
        /\ RLess(df.volume_variance[k][1], RMul(margin, margin))

\* C24: every bar from index lookback on has an adaptive threshold, and is a
\* spike exactly when its volume over the rolling mean exceeds 1.5 times
\* (1 + rolling deviation / rolling mean) of the window ending at the bar
EveryEvaluatedBarHasThreshold ==
    ("volume_signals" \in DOMAIN calc /\ calc.volume_signals # None) =>
        LET df == volume_metrics(candles, DefaultLookback)
        IN  \A k \in (DefaultLookback + 1)..Len(candles) :
                /\ df.adaptive_threshold[k] # None
                /\ df.volume_spike[k] = SpikeByWindowDeviation(df, k)

\* C25: no two trades made within one run have the same id
TradeIdsUnique ==
    LET made == trades \o active_trades
    IN  \A j, k \in DOMAIN made : j # k => made[j].id # made[k].id

\* C26: whenever no position is open during the simulation, the available
\* capital is the initial capital plus the realized PnL of the trades closed so
\* far
CapitalReleasedAtExit ==
    (pc = "loop" /\ active_trades = <<>>) =>
        available_capital = RAdd(RInt(params.initial_capital), SumPnl(trades))

\* C27: a trade is made only from a signal whose direction is long or short and
\* has the direction of its signal; a signal of direction 'unknown' opens no
\* trade
TradesFollowSignalDirection ==
    \A t \in SeqRange(active_trades) \cup SeqRange(trades) :
        t.entry_time \in DOMAIN signals =>
            /\ signals[t.entry_time].direction \in {"long", "short"}
            /\ t.direction = signals[t.entry_time].direction

\* size x take_profit fraction and -size x stop_loss fraction of a trade, the
\* fractions being the distances of the trade's levels from its entry price
MostPnl(t) == RMul(t.size, RDiv(RAbs(RSub(t.take_profit, t.entry_price)), t.entry_price))

LeastPnl(t) == RNeg(RMul(t.size, RDiv(RAbs(RSub(t.stop_loss, t.entry_price)), t.entry_price)))

\* C28: the realized PnL of every closed trade is size x take_profit for a
\* take-profit exit, -size x stop_loss for a stop-loss exit, and strictly
\* between the two for a trade closed at the end of the series
PnlBoundedByRiskLevels ==
    \A t \in SeqRange(trades) \cup SeqRange(ReturnedTrades) :
        /\ t.pnl # None
        /\ t.exit_reason # None
        /\ RLeq(LeastPnl(t), t.pnl[1])
        /\ RLeq(t.pnl[1], MostPnl(t))
        /\ t.exit_reason[1] = "take_profit" => t.pnl[1] = MostPnl(t)
        /\ t.exit_reason[1] = "stop_loss" => t.pnl[1] = LeastPnl(t)
        /\ t.exit_reason[1] \notin {"take_profit", "stop_loss"} =>
               RLess(LeastPnl(t), t.pnl[1]) /\ RLess(t.pnl[1], MostPnl(t))

\* a returned run with a take-profit exit on a bar that closed beyond the
\* level, and a trade closed at the end of the series
OvershootFilledAtLevel ==
    /\ pc = "returned"
    /\ \E t \in SeqRange(ReturnedTrades) :
           /\ t.exit_reason = Some("take_profit")
           /\ RInt(candles[t.exit_time[1]].close) # t.take_profit
           /\ t.pnl[1] = MostPnl(t)
    /\ \E t \in SeqRange(ReturnedTrades) : t.exit_reason = Some("manual")

\* C29: a trade's take_profit is entry_price x (1 +/- params.take_profit) and
\* its stop_loss entry_price x (1 -/+ params.stop_loss), for the params of the
\* run that made it
LevelsFollowRunParams ==
    ("params" \in DOMAIN calc /\ calc.created # None /\ calc.created[1] # None) =>
        LET t == calc.created[1][1]
            up == t.direction = "long"
            gain == Pct(calc.params.take_profit)
            loss == Pct(calc.params.stop_loss)
        IN  /\ t.take_profit =
                   RMul(t.entry_price, IF up THEN RAdd(RInt(1), gain) ELSE RSub(RInt(1), gain))
            /\ t.stop_loss =
                   RMul(t.entry_price, IF up THEN RSub(RInt(1), loss) ELSE RAdd(RInt(1), loss))

\* C30: within one candle the exit check comes before the entry check. When
\* the open trade exits at a candle that carries a filtered signal and the
\* trade limit is not reached, a new trade is opened at that same candle, its
\* entry_time being the closed trade's exit_time; and no trade is checked for
\* exit at the candle at which it was opened
ExitBeforeEntryInCandle ==
    /\ [][(pc = "loop" /\ pc' = "loop" /\ i' = i + 1) =>
            /\ (/\ Len(trades') = Len(trades) + 1
                /\ i \in DOMAIN signals
                /\ Len(trades') < params.max_trades) =>
                   /\ Len(active_trades') = 1
                   /\ active_trades'[1].entry_time = i
                   /\ trades'[Len(trades')].exit_time = Some(active_trades'[1].entry_time)
                   /\ active_trades'[1] \notin SeqRange(active_trades)
            /\ last_check' # None => last_check'[1].trade.entry_time < i]_vars
    /\ [](\A t \in SeqRange(trades) :
             (t.exit_reason # None /\ t.exit_reason[1] \in {"take_profit", "stop_loss"}) =>
                 t.entry_time < t.exit_time[1])

\* a trade closed by its take-profit or stop-loss and the next trade opened at
\* the same candle
ReentryAtExitCandle ==
    /\ pc = "loop"
    /\ Len(trades) = 1
    /\ Len(active_trades) = 1
    /\ trades[1].exit_reason[1] \in {"take_profit", "stop_loss"}
    /\ trades[1].exit_time = Some(active_trades[1].entry_time)
    /\ i = active_trades[1].entry_time + 1

====
